---- MODULE Spec2Model ----
(***************************************************************************)
(* State-machine model of the mediasoup signalling core:                   *)
(*   MediasoupService  (src/src/mediasoup/services/mediasoup.service.ts)   *)
(*   MediasoupRoom     (src/src/mediasoup/types/room.mediasoup.ts)         *)
(*   RoomClient        (src/src/mediasoup/mediasoup.module.ts)             *)
(*   MediasoupGateway  (src/unnamed/part_002)                              *)
(* The mediasoup library objects (router, transport, producer, consumer)   *)
(* are kept in maps from object ids; their close cascades and the          *)
(* worker's asynchronous 'producerclose' notifications are modelled by     *)
(* the operators of the "library semantics" section.                       *)
(***************************************************************************)
EXTENDS Integers, Sequences, FiniteSets, TLC

\* ------------------------------------------------------------- bounds
MaxUsers == 2
MaxSessions == 2
MaxSockets == 3
NumWorkers == 2
MaxPending == 1
MaxRouters == 2
MaxTransports == 2
MaxProducers == 2
MaxConsumers == 2
MaxCount == 7
MaxCalls == 1
MaxProducerIds == 60

Users == 1..MaxUsers
Sessions == 1..MaxSessions
Sockets == 1..MaxSockets
Workers == 0..(NumWorkers - 1)
\* a registered room is kept under its session id; a room object that only a
\* suspended call still refers to is kept under an id of PendingIds
PendingIds == (MaxSessions + 1)..(MaxSessions + MaxPending)

\* handshake / payload inputs
Kinds == {"producer", "consumer"}
\* rtpCapabilities: 0 is undefined, GoodCaps can consume every live producer
GoodCaps == 1
\* rtp capabilities no producer of the model can be consumed with
BadCaps == 2
Tags == {"audio", "video", "screen-media"}
\* the type of a createWebRtcTransport message that createWebRtcTransport acts on
TransportTypes == {"PRODUCER", "CONSUMER"}
\* the handshake query of socket k: its device string and its user id
\* (sockets k and k + MaxUsers present the same user id)
DeviceOf(k) == k
UserOf(k) == ((k - 1) % MaxUsers) + 1

VARIABLES
  sockets,      \* socket k -> session id of its handshake query, 0 when not connected
  group,        \* session  -> set of sockets in the broadcast group (socket.io room)
  workers,      \* MediasoupService._workers: index -> counters
  roomHeap,     \* MediasoupRoom objects: MediasoupService._rooms under the session
                \* ids, the rooms of suspended calls under PendingIds
  loads,        \* configureWorker calls suspended at a worker request
  routerSeq,    \* number of routers created so far
  openRouters,  \* ids of the routers that are open
  transports,   \* id -> WebRtcTransport object
  producers,    \* id -> Producer object
  consumers,    \* id -> Consumer object
  notifs,       \* consumers with a worker 'producerclose' notification in flight
  requests,     \* consumers whose pushed newConsumer request awaits its ack
  lastOp,       \* the handler that ran last, its arguments and its result
  lastEmit,     \* the socket events emitted by the handler that ran last
  calls,        \* createWebRtcTransport calls suspended at their worker request
  bitrate       \* the inputs and the outcome of the last updateMaxIncomingBitrate

vars == <<sockets, group, workers, roomHeap, loads, routerSeq, openRouters,
          transports, producers, consumers, notifs, requests, lastOp, lastEmit,
          calls, bitrate>>

\* ------------------------------------------------------------- records
None == <<>>
Some(x) == <<x>>
EmptyMap == [x \in {} |-> 0]

\* RoomClient._media initialiser
NewMedia ==
  [producerVideo |-> 0, producerScreen |-> 0, producerAudio |-> 0,
   producerTransport |-> 0, consumerTransport |-> 0,
   consumersVideo |-> Some(EmptyMap), consumersScreen |-> Some(EmptyMap),
   consumersAudio |-> Some(EmptyMap)]

\* the object literal {} that reConfigureMedia assigns to user.media
EmptyMedia ==
  [producerVideo |-> 0, producerScreen |-> 0, producerAudio |-> 0,
   producerTransport |-> 0, consumerTransport |-> 0,
   consumersVideo |-> None, consumersScreen |-> None, consumersAudio |-> None]

\* new RoomClient() with the fields addClient sets
NewRoomClient(k, kind) ==
  [io |-> k, device |-> DeviceOf(k), kind |-> kind, rtpCapabilities |-> 0,
   joined |-> FALSE,
   producerAudioEnabled |-> FALSE, producerVideoEnabled |-> FALSE,
   globalProduceAudioEnabled |-> TRUE, globalProduceVideoEnabled |-> TRUE,
   isScreenSharing |-> FALSE, media |-> NewMedia]

\* new MediasoupRoom(...) with the fields initSession sets before load()
NewRoom(s, idx) ==
  [sessionId |-> s, workerIndex |-> idx, router |-> 0,
   observerRouter |-> 0, observerClosed |-> FALSE, clients |-> EmptyMap]

\* the record of the last handler: its name and result and, when it changed
\* the state, the session, user and worker index it was about
NoOp == [op |-> "none", res |-> "none", s |-> 0, u |-> 0, idx |-> 0]
Op(op, res, s, u, idx) == [op |-> op, res |-> res, s |-> s, u |-> u, idx |-> idx]
Failed(op, res) == Op(op, res, 0, 0, 0)

\* an emitted event: its name, the socket it reaches and its payload
EmitProducer(ev, to, about, tag, isGlobal) ==
  [ev |-> ev, to |-> to, about |-> about, mediaTag |-> tag, isGlobal |-> isGlobal]

Emit(ev, to, about) == EmitProducer(ev, to, about, "", FALSE)

\* RoomClient getters
ConsumersVideoOf(m) == m.consumersVideo
ConsumersScreenOf(m) == m.consumersScreen
ConsumersAudioOf(m) == m.consumersVideo

MapDel(opt, key) ==
  IF opt = None THEN opt
  ELSE Some([x \in (DOMAIN opt[1]) \ {key} |-> opt[1][x]])

MapSet(opt, key, v) ==
  Some([x \in (DOMAIN opt[1]) \cup {key} |-> IF x = key THEN v ELSE opt[1][x]])

\* the field of media a tag names
TagMap(m, tag) ==
  CASE tag = "audio" -> m.consumersAudio
    [] tag = "video" -> m.consumersVideo
    [] OTHER -> m.consumersScreen

WithTagMap(m, tag, v) ==
  CASE tag = "audio" -> [m EXCEPT !.consumersAudio = v]
    [] tag = "video" -> [m EXCEPT !.consumersVideo = v]
    [] OTHER -> [m EXCEPT !.consumersScreen = v]

\* ------------------------------------------------------------- the world
\* The handlers are sequential code over several objects: they are written
\* as functions from one world record to the next.
World ==
  [heap |-> roomHeap, G |-> group, T |-> transports, P |-> producers,
   C |-> consumers, N |-> notifs, Q |-> requests, R |-> openRouters, E |-> {},
   K |-> calls]

SetMin(S) == CHOOSE x \in S : \A y \in S : x <= y

\* the objects of the worker are kept under ids; an id is free again once its
\* object is closed and nothing refers to it
NewId(f, max) == SetMin((1..max) \ DOMAIN f)

WithNew(f, id, v) == [i \in (DOMAIN f) \cup {id} |-> IF i = id THEN v ELSE f[i]]

MapRange(opt) == IF opt = None THEN {} ELSE {opt[1][x] : x \in DOMAIN opt[1]}

\* closed consumers, producers and transports that no live object refers to
Collect(W) ==
  LET medias == UNION {{W.heap[r].clients[u].media : u \in DOMAIN W.heap[r].clients} :
                         r \in DOMAIN W.heap}
      cs == {c \in DOMAIN W.C :
               \/ ~W.C[c].closed
               \/ c \in W.N \cup W.Q
               \/ \E m \in medias : c \in MapRange(m.consumersAudio)
                                        \cup MapRange(m.consumersVideo)
                                        \cup MapRange(m.consumersScreen)}
      ps == {p \in DOMAIN W.P :
               \/ ~W.P[p].closed
               \/ \E m \in medias : p \in {m.producerAudio, m.producerVideo, m.producerScreen}
               \/ \E c \in cs : W.C[c].producer = p}
      ts == {t \in DOMAIN W.T :
               \/ ~W.T[t].closed
               \/ \E m \in medias : t \in {m.producerTransport, m.consumerTransport}
               \/ \E c \in cs : W.C[c].transport = t
               \/ \E q \in ps : W.P[q].transport = t}
  IN [W EXCEPT !.C = [c \in cs |-> @[c]],
               !.P = [q \in ps |-> @[q]],
               !.T = [t \in ts |-> @[t]]]

\* ------------------------------------------------------------- library semantics
\* (mediasoup v3: Transport.close, Producer.close, Router.close and the
\*  events they emit on the objects the room wired handlers to)

ClientLive(W, rid, u) ==
  rid \in DOMAIN W.heap /\ u \in DOMAIN W.heap[rid].clients

\* the 'transportclose' handler wired by consume (pull) / createConsumer (push)
OnTransportClose(W, c) ==
  LET con == W.C[c] IN
  IF con.stale \/ ~ClientLive(W, con.room, con.owner) THEN W
  ELSE
    LET m == W.heap[con.room].clients[con.owner].media
        m2 == IF con.flow = "pull"
              THEN CASE con.tag = "screen-media" ->
                          [m EXCEPT !.consumersScreen = MapDel(ConsumersScreenOf(m), con.peer)]
                     [] con.tag = "video" ->
                          [m EXCEPT !.consumersVideo = MapDel(ConsumersVideoOf(m), con.peer)]
                     [] OTHER ->
                          [m EXCEPT !.consumersVideo = MapDel(ConsumersAudioOf(m), con.peer)]
              ELSE WithTagMap(m, con.tag, MapDel(TagMap(m, con.tag), con.peer))
    IN [W EXCEPT !.heap[con.room].clients[con.owner].media = m2]

\* the 'producerclose' handler wired by consume (pull) / createConsumer (push)
OnProducerClose(W, c) ==
  LET con == W.C[c] IN
  IF con.stale \/ ~ClientLive(W, con.room, con.owner) THEN W
  ELSE
    LET rc == W.heap[con.room].clients[con.owner]
        m == rc.media
        m2 == IF con.flow = "pull"
              THEN CASE con.tag = "screen-media" ->
                          [m EXCEPT !.consumersScreen = MapDel(ConsumersScreenOf(m), con.peer)]
                     [] con.tag = "video" ->
                          [m EXCEPT !.consumersVideo = MapDel(ConsumersVideoOf(m), con.peer)]
                     [] OTHER ->
                          [m EXCEPT !.consumersAudio = MapDel(m.consumersAudio, con.peer)]
              ELSE WithTagMap(m, con.tag, MapDel(TagMap(m, con.tag), con.peer))
        ev == IF con.flow = "pull" THEN "mediaProducerClose" ELSE "consumerClosed"
    IN [W EXCEPT !.heap[con.room].clients[con.owner].media = m2,
                 !.E = @ \cup {Emit(ev, rc.io, con.peer)}]

OpenConsumersOf(W, ps) ==
  {c \in DOMAIN W.C : W.C[c].producer \in ps /\ ~W.C[c].closed}

\* Consumer.transportClosed() on every consumer of S, in creation order
RECURSIVE ConsumersTransportClosed(_, _)
ConsumersTransportClosed(W, S) ==
  IF S = {} THEN W
  ELSE LET c == SetMin(S)
           W1 == [W EXCEPT !.C[c].closed = TRUE]
       IN ConsumersTransportClosed(OnTransportClose(W1, c), S \ {c})

RECURSIVE ProducersClosed(_, _)
ProducersClosed(P, S) ==
  IF S = {} THEN P
  ELSE LET p == SetMin(S)
       IN ProducersClosed([P EXCEPT ![p].closed = TRUE], S \ {p})

\* Transport.close() (notify) and Transport.routerClosed() (~notify)
TransportClose(W, t, notify) ==
  IF W.T[t].closed THEN W
  ELSE
    LET ps == {p \in DOMAIN W.P : W.P[p].transport = t /\ ~W.P[p].closed}
        cs == {c \in DOMAIN W.C : W.C[c].transport = t /\ ~W.C[c].closed}
        W1 == [W EXCEPT !.T[t].closed = TRUE,
                        !.P = ProducersClosed(@, ps),
                        !.N = IF notify THEN @ \cup OpenConsumersOf(W, ps) ELSE @]
    IN ConsumersTransportClosed(W1, cs)

\* Producer.close(): the worker tells the producer's consumers later
ProducerClose(W, p) ==
  IF W.P[p].closed THEN W
  ELSE [W EXCEPT !.P[p].closed = TRUE, !.N = @ \cup OpenConsumersOf(W, {p})]

RECURSIVE TransportsRouterClosed(_, _)
TransportsRouterClosed(W, S) ==
  IF S = {} THEN W
  ELSE LET t == SetMin(S)
       IN TransportsRouterClosed(TransportClose(W, t, FALSE), S \ {t})

\* Router.close(): its transports and rtp observers are closed with it
RouterClose(W, r) ==
  IF r \notin W.R THEN W
  ELSE
    LET ts == {t \in DOMAIN W.T : W.T[t].router = r}
        W1 == [W EXCEPT !.R = @ \ {r},
                        !.heap = [i \in DOMAIN @ |->
                                    IF @[i].observerRouter = r
                                    THEN [@[i] EXCEPT !.observerClosed = TRUE]
                                    ELSE @[i]]]
    IN TransportsRouterClosed(W1, ts)

\* ------------------------------------------------------------- MediasoupRoom
\* closeMediaClient(mediaClient) on the media object of client u of room rid
closeMediaClient(W, rid, u) ==
  LET m == W.heap[rid].clients[u].media
      W1 == IF m.producerVideo # 0 THEN ProducerClose(W, m.producerVideo) ELSE W
      W2 == IF m.producerAudio # 0 THEN ProducerClose(W1, m.producerAudio) ELSE W1
      W3 == IF m.producerTransport # 0
            THEN TransportClose(W2, m.producerTransport, TRUE) ELSE W2
      W4 == IF m.consumerTransport # 0
            THEN TransportClose(W3, m.consumerTransport, TRUE) ELSE W3
  IN W4

\* broadcast(client, ev, msg): client.broadcast.to(sessionId).emit reaches
\* everyone in the group but the sender
broadcast(W, s, from, ev, about) ==
  [W EXCEPT !.E = @ \cup {Emit(ev, k, about) : k \in W.G[s] \ {from}}]

\* broadcastAll(ev, msg): wssServer.to(sessionId).emit reaches the whole group
broadcastAll(W, s, ev, about) ==
  [W EXCEPT !.E = @ \cup {Emit(ev, k, about) : k \in W.G[s]}]

\* the RoomClient objects dropped from the room keep their closures: the
\* consumers that captured them no longer reach the room's state
MarkStale(C, rid, us) ==
  [c \in DOMAIN C |->
     IF C[c].room = rid /\ C[c].owner \in us THEN [C[c] EXCEPT !.stale = TRUE] ELSE C[c]]

\* the suspended calls that captured one of the dropped RoomClient objects
DropCaptured(K, rid, us) ==
  {IF c.room = rid /\ c.user \in us /\ c.client = "live"
   THEN [c EXCEPT !.client = "dropped"] ELSE c : c \in K}

\* ------------------------------------------------------------- MediasoupService
\* MediasoupService._rooms.get(s) is defined
Registered(heap, s) == s \in DOMAIN heap

RECURSIVE SumClients(_, _, _)
SumClients(S, heap, w) ==
  IF S = {} THEN 0
  ELSE LET s == SetMin(S)
           n == IF Registered(heap, s) /\ heap[s].workerIndex = w
                THEN Cardinality(DOMAIN heap[s].clients) ELSE 0
       IN n + SumClients(S \ {s}, heap, w)

\* updateWorkerStats(): every slot's counters recomputed from the registry
updateWorkerStats(heap) ==
  [w \in Workers |->
     [clientsCount |-> SumClients(Sessions, heap, w),
      roomsCount |-> Cardinality({s \in Sessions :
                                    Registered(heap, s) /\ heap[s].workerIndex = w})]]

\* a variant of the reducer that keeps the earlier slot on a tie
RECURSIVE ReduceWorkersFirst(_, _, _)
ReduceWorkersFirst(ws, prev, curr) ==
  IF curr > NumWorkers - 1 THEN prev
  ELSE ReduceWorkersFirst(ws,
                          IF ws[prev].clientsCount <= ws[curr].clientsCount THEN prev ELSE curr,
                          curr + 1)

\* the reducer of getOptimalWorkerIndex over Object.entries(_workers)
RECURSIVE ReduceWorkers(_, _, _)
ReduceWorkers(ws, prev, curr) ==
  IF curr > NumWorkers - 1 THEN prev
  ELSE ReduceWorkers(ws,
                     IF ws[prev].clientsCount < ws[curr].clientsCount THEN prev ELSE curr,
                     curr + 1)

\* a variant of getOptimalWorkerIndex that looks at the first slot only
firstWorkerIndex(ws) == 0

getOptimalWorkerIndex(ws) == ReduceWorkers(ws, 0, 1)

FreePendingIds == PendingIds \ DOMAIN roomHeap

WithRoom(heap, rid, room) ==
  [i \in (DOMAIN heap) \cup {rid} |-> IF i = rid THEN room ELSE heap[i]]

WithoutRoom(heap, rid) == [i \in (DOMAIN heap) \ {rid} |-> heap[i]]

\* the end of every handler
Commit(W, ld, op) ==
  /\ loads' = ld
  /\ roomHeap' = W.heap
  /\ group' = W.G
  /\ LET kept == Collect(W)
     IN /\ transports' = kept.T
        /\ producers' = kept.P
        /\ consumers' = kept.C
  /\ notifs' = W.N
  /\ requests' = W.Q
  /\ openRouters' = W.R
  /\ lastEmit' = W.E
  /\ calls' = W.K
  /\ bitrate' = bitrate
  /\ lastOp' = op

\* a variant of SessionExists that refreshes the counters before returning
SessionExistsRefreshed ==
  /\ workers' = updateWorkerStats(roomHeap)
  /\ UNCHANGED routerSeq
  /\ Commit(World, loads, Failed("initSession", "exists"))

\* initSession(sessionId) when _rooms.get(sessionId) is defined: returns false
SessionExists ==
  /\ UNCHANGED <<workers, routerSeq>>
  /\ Commit(World, loads, Failed("initSession", "exists"))

\* initSession(sessionId), up to its await of room.load()
initSessionWithin(s, n) ==
  IF Registered(roomHeap, s)
  THEN SessionExists
  ELSE /\ ((MaxSessions + 1)..(MaxSessions + n)) \ DOMAIN roomHeap # {}
       /\ LET rid == SetMin(((MaxSessions + 1)..(MaxSessions + n)) \ DOMAIN roomHeap)
              ws == updateWorkerStats(roomHeap)
              idx == getOptimalWorkerIndex(ws)
          IN /\ workers' = ws
             /\ UNCHANGED routerSeq
             /\ Commit([World EXCEPT !.heap = WithRoom(@, rid, NewRoom(s, idx))],
                       loads \cup {[room |-> rid, kind |-> "init",
                                    stage |-> "router", router |-> 0]},
                       Op("initSession", "created", s, 0, idx))

initSession(s) == initSessionWithin(s, MaxPending)

\* MediasoupGateway.handleConnection
HandleConnection(k, s) ==
  /\ sockets[k] = 0
  /\ sockets' = [sockets EXCEPT ![k] = s]
  /\ initSession(s)

\* handleConnection with up to n initSession calls suspended at once
HandleConnectionWithin(k, s, n) ==
  /\ sockets[k] = 0
  /\ sockets' = [sockets EXCEPT ![k] = s]
  /\ initSessionWithin(s, n)

\* _rooms.set(sessionId, room) / _rooms.delete(sessionId): the room object that
\* leaves the registry lives on only while a suspended reConfigureMedia holds it
Unregister(W, ld, s) ==
  LET held == {l \in ld : l.room = s}
      W1 == [W EXCEPT !.C = [c \in DOMAIN @ |->
                               IF @[c].room = s THEN [@[c] EXCEPT !.stale = TRUE]
                               ELSE @[c]]]
  IN IF held = {}
     THEN [w |-> [W1 EXCEPT !.heap = WithoutRoom(@, s)], ld |-> ld]
     ELSE LET t == SetMin(PendingIds \ DOMAIN W.heap)
          IN [w |-> [W1 EXCEPT !.heap = WithRoom(WithoutRoom(@, s), t, W.heap[s])],
              ld |-> (ld \ held) \cup {[l EXCEPT !.room = t] : l \in held}]

CanUnregister(heap, ld, s) ==
  (\E l \in ld : l.room = s) => (PendingIds \ DOMAIN heap) # {}

\* the code after `await configureWorker()`: initSession registers the room,
\* reConfigureMedia broadcasts mediaReconfigure
LoadDone(W, l, res) ==
  LET room == W.heap[l.room]
      s == room.sessionId
      ld == loads \ {l}
  IN IF l.kind = "init"
     THEN LET W1 == [W EXCEPT !.heap = WithoutRoom(@, l.room)]
              U == IF Registered(W1.heap, s) THEN Unregister(W1, ld, s)
                   ELSE [w |-> W1, ld |-> ld]
          IN Commit([U.w EXCEPT !.heap = WithRoom(@, s, room)], U.ld,
                    Op("initSession.done", res, s, 0, 0))
     ELSE Commit(broadcastAll(W, s, "mediaReconfigure", 0), ld,
                 Op("reConfigureMedia.done", res, s, 0, 0))

\* configureWorker: worker.createRouter resolved
RouterCreated(l) ==
  /\ l \in loads /\ l.stage = "router"
  /\ routerSeq < MaxRouters
  /\ LET r == routerSeq + 1
         W == [World EXCEPT !.heap[l.room].router = r, !.R = @ \cup {r}]
     IN /\ routerSeq' = r
        /\ UNCHANGED <<sockets, workers>>
        /\ Commit(W, (loads \ {l}) \cup {[l EXCEPT !.stage = "observer", !.router = r]},
                  Failed("createRouter", "ok"))

\* configureWorker: worker.createRouter rejected (caught and logged)
RouterFailed(l) ==
  /\ l \in loads /\ l.stage = "router"
  /\ UNCHANGED <<sockets, workers, routerSeq>>
  /\ LoadDone(World, l, "routerFailed")

\* configureWorker: router.createAudioLevelObserver resolved
ObserverCreated(l) ==
  /\ l \in loads /\ l.stage = "observer"
  /\ l.router \in openRouters
  /\ UNCHANGED <<sockets, workers, routerSeq>>
  /\ LoadDone([World EXCEPT !.heap[l.room].observerRouter = l.router,
                            !.heap[l.room].observerClosed = FALSE], l, "ok")

\* configureWorker: router.createAudioLevelObserver rejected (caught and logged)
ObserverFailed(l) ==
  /\ l \in loads /\ l.stage = "observer"
  /\ UNCHANGED <<sockets, workers, routerSeq>>
  /\ LoadDone(World, l, "observerFailed")

\* a variant of MediasoupRoom.addClient without the check of clients.get(userId)
RoomAddClientAgain(W, s, k, u, kind) ==
  [W EXCEPT !.heap[s].clients =
     [x \in (DOMAIN @) \cup {u} |-> IF x = u THEN NewRoomClient(k, kind) ELSE @[x]]]

\* MediasoupRoom.addClient
RoomAddClient(W, s, k, u, kind) ==
  IF u \in DOMAIN W.heap[s].clients THEN W
  ELSE [W EXCEPT !.heap[s].clients =
          [x \in (DOMAIN @) \cup {u} |-> IF x = u THEN NewRoomClient(k, kind) ELSE @[x]]]

\* what MediasoupRoom.addClient returns
RoomAddClientResult(W, s, u) ==
  IF u \in DOMAIN W.heap[s].clients THEN "undefined" ELSE "true"

\* MediasoupGateway.handleAddClient -> MediasoupService.addClient
AddClient(k, kind) ==
  /\ sockets[k] # 0
  /\ UNCHANGED <<sockets, workers, routerSeq>>
  /\ LET s == sockets[k]
         u == UserOf(k)
     IN IF ~Registered(roomHeap, s)
        THEN Commit(World, loads, Failed("addClient", "TypeError"))
        ELSE IF RoomAddClientResult(World, s, u) = "true"
        THEN Commit(RoomAddClient(World, s, k, u, kind), loads,
                    Op("addClient", "true", s, u, 0))
        ELSE Commit(RoomAddClient(World, s, k, u, kind), loads,
                    Failed("addClient", RoomAddClientResult(World, s, u)))

\* MediasoupRoom.joinRoom, past its check of roomClient.joined
RoomJoin(W, s, k, u, rtp, caps) ==
  LET rc == [W.heap[s].clients[u] EXCEPT
               !.globalProduceVideoEnabled = caps.globalVideoEnabled,
               !.globalProduceAudioEnabled = caps.globalAudioEnabled,
               !.producerAudioEnabled = caps.producerAudioEnabled,
               !.producerVideoEnabled = caps.producerVideoEnabled,
               !.rtpCapabilities = rtp,
               !.joined = TRUE]
      W1 == [W EXCEPT !.heap[s].clients[u] = rc, !.G[s] = @ \cup {k}]
  IN broadcastAll(W1, s, "mediaClientConnected", u)

\* a variant of JoinResult without the check of roomClient.joined
JoinResultUnchecked(heap, s, u) ==
  IF ~Registered(heap, s) THEN "TypeError"
  ELSE IF u \notin DOMAIN heap[s].clients THEN "TypeError"
  ELSE "ok"

\* how MediasoupService.joinRoom / MediasoupRoom.joinRoom end: "TypeError" is
\* the dereference of an undefined room or roomClient, "Error" the thrown
\* Error('Peer already joined')
JoinResult(heap, s, u) ==
  IF ~Registered(heap, s) THEN "TypeError"
  ELSE IF u \notin DOMAIN heap[s].clients THEN "TypeError"
  ELSE IF heap[s].clients[u].joined THEN "Error"
  ELSE "ok"

\* MediasoupGateway.handleJoinRoom -> MediasoupService.joinRoom
JoinRoom(k, rtp, caps) ==
  /\ sockets[k] # 0
  /\ UNCHANGED <<sockets, workers, routerSeq>>
  /\ LET s == sockets[k]
         u == UserOf(k)
         res == JoinResult(roomHeap, s, u)
     IN IF res = "ok"
        THEN Commit(RoomJoin(World, s, k, u, rtp, caps), loads,
                    Op("joinRoom", "ok", s, u, 0))
        ELSE Commit(World, loads, Failed("joinRoom", res))

\* MediasoupRoom.removeClient
RoomRemoveClient(W, s, u) ==
  IF u \notin DOMAIN W.heap[s].clients THEN W
  ELSE
    LET io == W.heap[s].clients[u].io
        W1 == broadcast(W, s, io, "mediaClientDisconnect", u)
        W2 == [W1 EXCEPT !.G[s] = @ \ {io}]
        W3 == closeMediaClient(W2, s, u)
    IN [W3 EXCEPT !.heap[s].clients = [x \in (DOMAIN @) \ {u} |-> @[x]],
                  !.C = MarkStale(@, s, {u}),
                  !.K = DropCaptured(@, s, {u})]

RECURSIVE CloseClients(_, _, _)
CloseClients(W, s, S) ==
  IF S = {} THEN W
  ELSE LET u == SetMin(S)
           io == W.heap[s].clients[u].io
           W1 == broadcast(W, s, io, "mediaDisconnectMember", u)
           W2 == [W1 EXCEPT !.G[s] = @ \ {io}]
       IN CloseClients(closeMediaClient(W2, s, u), s, S \ {u})

\* MediasoupRoom.close: audioLevelObserver.close() throws on an undefined
\* observer, and the catch skips router.close()
RoomClose(W, s) ==
  LET us == DOMAIN W.heap[s].clients
      W1 == CloseClients(W, s, us)
      W2 == [W1 EXCEPT !.heap[s].clients = EmptyMap, !.C = MarkStale(@, s, us),
                       !.K = DropCaptured(@, s, us)]
  IN IF W2.heap[s].observerRouter = 0 THEN W2
     ELSE RouterClose([W2 EXCEPT !.heap[s].observerClosed = TRUE], W2.heap[s].router)

\* MediasoupGateway.handleDisconnect -> MediasoupService.removeClient
\* (socket.io has taken the socket out of its groups before 'disconnect')
HandleDisconnect(k) ==
  /\ sockets[k] # 0
  /\ sockets' = [sockets EXCEPT ![k] = 0]
  /\ UNCHANGED <<workers, routerSeq>>
  /\ LET s == sockets[k]
         u == UserOf(k)
         W0 == [World EXCEPT !.G = [x \in Sessions |-> @[x] \ {k}]]
     IN IF ~Registered(roomHeap, s)
        THEN Commit(W0, loads, Failed("removeClient", "TypeError"))
        ELSE LET W1 == RoomRemoveClient(W0, s, u)
                 removed == u \in DOMAIN roomHeap[s].clients
             IN IF DOMAIN W1.heap[s].clients = {}
                THEN /\ CanUnregister(roomHeap, loads, s)
                     /\ LET U == Unregister(RoomClose(W1, s), loads, s)
                        IN Commit(U.w, U.ld,
                                  Op("removeClient", "closed", s, IF removed THEN u ELSE 0, 0))
                ELSE Commit(W1, loads,
                            IF removed THEN Op("removeClient", "ok", s, u, 0)
                            ELSE Failed("removeClient", "absent"))

RECURSIVE ResetMedia(_, _, _)
ResetMedia(W, s, S) ==
  IF S = {} THEN W
  ELSE LET u == SetMin(S)
           W1 == closeMediaClient(W, s, u)
       IN ResetMedia([W1 EXCEPT !.heap[s].clients[u].media = EmptyMedia], s, S \ {u})

\* MediasoupService.reConfigureMedia -> MediasoupRoom.reConfigureMedia, up to
\* its await of configureWorker()
ReConfigureMedia(s) ==
  /\ Registered(roomHeap, s)
  /\ \A l \in loads : l.room # s
  /\ UNCHANGED <<sockets, routerSeq>>
  /\ LET ws == updateWorkerStats(roomHeap)
         idx == getOptimalWorkerIndex(ws)
         W1 == ResetMedia(World, s, DOMAIN roomHeap[s].clients)
     IN /\ workers' = ws
        /\ IF roomHeap[s].observerRouter = 0
           THEN Commit(W1, loads, Op("reConfigureMedia", "TypeError", s, 0, 0))
           ELSE LET W2 == RouterClose([W1 EXCEPT !.heap[s].observerClosed = TRUE],
                                      roomHeap[s].router)
                    W3 == [W2 EXCEPT !.heap[s].workerIndex = idx]
                IN Commit(W3,
                          loads \cup {[room |-> s, kind |-> "reconf",
                                       stage |-> "router", router |-> 0]},
                          Op("reConfigureMedia", "started", s, 0, idx))

\* ------------------------------------------------------------- media commands
\* (MediasoupGateway.media -> MediasoupService.handleMedia -> speakMsClient;
\*  the worker answers a request before the next event is handled)

\* Router.canConsume for the capabilities a peer sends
\* a variant of CanConsume that accepts any capabilities
CanConsumeAnyCaps(W, p, rtp) == ~W.P[p].closed

CanConsume(W, p, rtp) == ~W.P[p].closed /\ rtp = GoodCaps

\* the room's router accepts requests
RouterOpen(W, s) == W.heap[s].router \in W.R

\* audioLevelObserver.addProducer resolves
ObserverOpen(W, s) ==
  /\ W.heap[s].observerRouter # 0
  /\ ~W.heap[s].observerClosed

\* MediasoupRoom.createWebRtcTransport
CreateWebRtcTransportWithin(k, type, n) ==
  /\ sockets[k] # 0
  /\ (1..n) \ DOMAIN transports # {}
  /\ UNCHANGED <<sockets, workers, routerSeq>>
  /\ LET s == sockets[k]
         u == UserOf(k)
         t == NewId(transports, n)
     IN IF ~Registered(roomHeap, s)
        THEN Commit(World, loads, Failed("createWebRtcTransport", "undefined"))
        ELSE IF ~RouterOpen(World, s)
        THEN Commit(World, loads, Failed("createWebRtcTransport", "error"))
        ELSE LET W1 == [World EXCEPT !.T = WithNew(@, t, [room |-> s, owner |-> u, type |-> type,
                                                        router |-> roomHeap[s].router,
                                                        closed |-> FALSE,
                                                        maxIncomingBitrate |-> 0])]
             IN IF u \notin DOMAIN roomHeap[s].clients
                THEN Commit(W1, loads, Op("createWebRtcTransport", "error", s, u, 0))
                ELSE Commit(IF type = "PRODUCER"
                            THEN [W1 EXCEPT !.heap[s].clients[u].media.producerTransport = t]
                            ELSE [W1 EXCEPT !.heap[s].clients[u].media.consumerTransport = t],
                            loads, Op("createWebRtcTransport", "ok", s, u, 0))

CreateWebRtcTransport(k, type) == CreateWebRtcTransportWithin(k, type, MaxTransports)

\* getJoinedPeers(excludePeerId): every participant but the excluded one
getJoinedPeers(W, s, u) == (DOMAIN W.heap[s].clients) \ {u}

\* createConsumer(consumerPeer, producerPeer, producer) would get past its
\* early returns and transport.consume
CanCreateConsumer(W, s, peer) ==
  LET rc == W.heap[s].clients[peer]
  IN /\ rc.rtpCapabilities # 0
     /\ rc.media.consumerTransport # 0
     /\ ~W.T[rc.media.consumerTransport].closed

\* a variant of createConsumer whose transport.consume is not given paused
createConsumerUnpaused(W, s, peer, u, p) ==
  IF ~CanCreateConsumer(W, s, peer) THEN W
  ELSE LET rc == W.heap[s].clients[peer]
           tag == W.P[p].tag
           c == NewId(W.C, MaxConsumers)
           con == [room |-> s, owner |-> peer, peer |-> u, tag |-> tag, flow |-> "push",
                   transport |-> rc.media.consumerTransport, producer |-> p,
                   paused |-> FALSE, closed |-> FALSE, stale |-> FALSE]
       IN IF TagMap(rc.media, tag) = None
          THEN [W EXCEPT !.C = WithNew(@, c, con)]
          ELSE [W EXCEPT !.C = WithNew(@, c, con),
                         !.heap[s].clients[peer].media =
                            WithTagMap(@, tag, MapSet(TagMap(@, tag), u, c)),
                         !.Q = @ \cup {c},
                         !.E = @ \cup {Emit("newConsumer", rc.io, u)}]

\* MediasoupRoom.createConsumer, up to its await of the newConsumer request
createConsumer(W, s, peer, u, p) ==
  IF ~CanCreateConsumer(W, s, peer) THEN W
  ELSE LET rc == W.heap[s].clients[peer]
           tag == W.P[p].tag
           c == NewId(W.C, MaxConsumers)
           con == [room |-> s, owner |-> peer, peer |-> u, tag |-> tag, flow |-> "push",
                   transport |-> rc.media.consumerTransport, producer |-> p,
                   paused |-> TRUE, closed |-> FALSE, stale |-> FALSE]
       IN IF TagMap(rc.media, tag) = None
          THEN [W EXCEPT !.C = WithNew(@, c, con)]
          ELSE [W EXCEPT !.C = WithNew(@, c, con),
                         !.heap[s].clients[peer].media =
                            WithTagMap(@, tag, MapSet(TagMap(@, tag), u, c)),
                         !.Q = @ \cup {c},
                         !.E = @ \cup {Emit("newConsumer", rc.io, u)}]

RECURSIVE CreateConsumers(_, _, _, _, _)
CreateConsumers(W, s, S, u, p) ==
  IF S = {} THEN W
  ELSE LET peer == SetMin(S)
       IN CreateConsumers(createConsumer(W, s, peer, u, p), s, S \ {peer}, u, p)

\* the field of media that holds the producer of a tag
WithProducer(m, tag, p) ==
  CASE tag = "audio" -> [m EXCEPT !.producerAudio = p]
    [] tag = "video" -> [m EXCEPT !.producerVideo = p]
    [] OTHER -> [m EXCEPT !.producerScreen = p]

ProducerOf(m, tag) ==
  CASE tag = "audio" -> m.producerAudio
    [] tag = "video" -> m.producerVideo
    [] OTHER -> m.producerScreen

\* a variant of PauseProduced that pauses every new producer
PauseProducedAlways(W, s, u, p, tag) ==
  IF tag # "screen-media"
  THEN [W EXCEPT !.P[p].paused = TRUE]
  ELSE [W EXCEPT !.P[p].paused = TRUE, !.heap[s].clients[u].isScreenSharing = TRUE]

\* the end of produce: producer.pause() unless the tag is screen-media
PauseProduced(W, s, u, p, tag) ==
  IF tag # "screen-media"
  THEN [W EXCEPT !.P[p].paused = TRUE]
  ELSE [W EXCEPT !.heap[s].clients[u].isScreenSharing = TRUE]

\* MediasoupRoom.produce
Produce(k, tag) ==
  /\ sockets[k] # 0
  /\ DOMAIN producers # 1..MaxProducers
  /\ UNCHANGED <<sockets, workers, routerSeq>>
  /\ LET s == sockets[k]
         u == UserOf(k)
         p == NewId(producers, MaxProducers)
     IN IF ~Registered(roomHeap, s)
        THEN Commit(World, loads, Failed("produce", "undefined"))
        ELSE IF \/ u \notin DOMAIN roomHeap[s].clients
                \/ roomHeap[s].clients[u].media.producerTransport = 0
                \/ transports[roomHeap[s].clients[u].media.producerTransport].closed
        THEN Commit(World, loads, Failed("produce", "undefined"))
        ELSE
          LET pr == [room |-> s, owner |-> u, tag |-> tag,
                     transport |-> roomHeap[s].clients[u].media.producerTransport,
                     closed |-> FALSE, paused |-> FALSE]
              W1 == [World EXCEPT !.P = WithNew(@, p, pr),
                                  !.heap[s].clients[u].media = WithProducer(@, tag, p)]
          IN IF tag = "audio" /\ ~ObserverOpen(W1, s)
             THEN Commit(W1, loads, Op("produce", "undefined", s, u, 0))
             ELSE
               LET W2 == broadcast(W1, s, roomHeap[s].clients[u].io, "mediaProduce", u)
                   peers == getJoinedPeers(W2, s, u)
                   able == {peer \in peers : CanCreateConsumer(W2, s, peer)}
                   W3 == CreateConsumers(W2, s, able, u, p)
                   W4 == PauseProduced(W3, s, u, p, tag)
               IN /\ Cardinality(able) + Cardinality(DOMAIN consumers) <= MaxConsumers
                  /\ Commit(W4, loads, Op("produce", "ok", s, u, 0))

\* where consume stores the consumer: through the getters of RoomClient,
\* after creating the map of the tag when media holds none
StoreConsumer(m, tag, target, c) ==
  CASE tag = "screen-media" ->
         [m EXCEPT !.consumersScreen =
            MapSet(IF ConsumersScreenOf(m) = None THEN Some(EmptyMap)
                   ELSE ConsumersScreenOf(m), target, c)]
    [] tag = "video" ->
         [m EXCEPT !.consumersVideo =
            MapSet(IF ConsumersVideoOf(m) = None THEN Some(EmptyMap)
                   ELSE ConsumersVideoOf(m), target, c)]
    [] OTHER ->
         [m EXCEPT !.consumersAudio = IF @ = None THEN Some(EmptyMap) ELSE @,
                   !.consumersVideo = MapSet(ConsumersAudioOf(m), target, c)]

\* MediasoupRoom.consume
Consume(k, target, tag, rtp) ==
  /\ sockets[k] # 0
  /\ DOMAIN consumers # 1..MaxConsumers
  /\ UNCHANGED <<sockets, workers, routerSeq>>
  /\ LET s == sockets[k]
         u == UserOf(k)
         c == NewId(consumers, MaxConsumers)
     IN IF ~Registered(roomHeap, s)
        THEN Commit(World, loads, Failed("consume", "undefined"))
        ELSE IF \/ u \notin DOMAIN roomHeap[s].clients
                \/ target \notin DOMAIN roomHeap[s].clients
        THEN Commit(World, loads, Failed("consume", "undefined"))
        ELSE
          LET m == roomHeap[s].clients[u].media
              p == ProducerOf(roomHeap[s].clients[target].media, tag)
          IN IF \/ p = 0
                \/ rtp = 0
                \/ ~RouterOpen(World, s)
                \/ ~CanConsume(World, p, rtp)
                \/ m.consumerTransport = 0
                \/ transports[m.consumerTransport].closed
             THEN Commit(World, loads, Failed("consume", "undefined"))
             ELSE
               LET con == [room |-> s, owner |-> u, peer |-> target, tag |-> tag,
                           flow |-> "pull", transport |-> m.consumerTransport,
                           producer |-> p,
                           paused |-> (tag = "audio" /\ producers[p].paused),
                           closed |-> FALSE, stale |-> FALSE]
               IN IF tag = "audio" /\ ConsumersAudioOf(m) = None
                  THEN \* user.consumersAudio.set on undefined: the consumer
                       \* exists on the transport and is stored nowhere
                       Commit([World EXCEPT !.C = WithNew(@, c, con),
                                            !.heap[s].clients[u].media.consumersAudio =
                                               IF @ = None THEN Some(EmptyMap) ELSE @],
                              loads, Op("consume", "undefined", s, u, 0))
                  ELSE Commit([World EXCEPT !.C = WithNew(@, c, con),
                                            !.heap[s].clients[u].media =
                                               StoreConsumer(@, tag, target, c)],
                              loads, Op("consume", "ok", s, u, 0))

\* the worker's 'producerclose' notification reaches consumer c
DeliverProducerClose(c) ==
  /\ c \in notifs
  /\ UNCHANGED <<sockets, workers, routerSeq>>
  /\ LET W1 == [World EXCEPT !.N = @ \ {c}]
     IN IF consumers[c].closed
        THEN Commit(W1, loads, Failed("producerclose", "ignored"))
        ELSE Commit(OnProducerClose([W1 EXCEPT !.C[c].closed = TRUE], c), loads,
                    Op("producerclose", "ok", consumers[c].room, consumers[c].owner, 0))

\* createConsumer after its await: the peer answered the newConsumer request
\* and the consumer is resumed (a closed consumer rejects, which is caught)
AckNewConsumer(c) ==
  /\ c \in requests
  /\ UNCHANGED <<sockets, workers, routerSeq>>
  /\ LET W1 == [World EXCEPT !.Q = @ \ {c}]
     IN IF consumers[c].closed
        THEN Commit(W1, loads, Failed("newConsumer", "closed"))
        ELSE Commit([W1 EXCEPT !.C[c].paused = FALSE], loads,
                    Op("newConsumer", "resumed", consumers[c].room, consumers[c].owner, 0))

\* createConsumer after its await: the peer answered the newConsumer request
\* with an error; sendRequest rejects and the catch only logs
RejectNewConsumer(c) ==
  /\ c \in requests
  /\ UNCHANGED <<sockets, workers, routerSeq>>
  /\ Commit([World EXCEPT !.Q = @ \ {c}], loads,
            Op("newConsumer", "rejected", consumers[c].room, consumers[c].owner, 0))

\* ----------------------------------------------------------- bitrate governance
\* appConfig.mediasoupSettings.webRtcTransport as the repository defines it:
\* factorIncomingBitrate 0.75 is kept as the fraction num / den
Configurations ==
  <<[minimumAvailableOutgoingBitrate |-> 600000,
     maximumAvailableOutgoingBitrate |-> 200000, num |-> 3, den |-> 4],
    [minimumAvailableOutgoingBitrate |-> 15000,
     maximumAvailableOutgoingBitrate |-> 200000, num |-> 3, den |-> 4]>>

NoBitrate == [config |-> 0, producerIds |-> 0, chosen |-> 0]

\* Math.round(a / d) for integers a and d # 0: the nearest integer, halves up
RoundDiv(a, d) ==
  IF d > 0 THEN (2 * a + d) \div (2 * d)
  ELSE ((-d) - 2 * a) \div (2 * (-d))

\* newMaxIncomingBitrate of updateMaxIncomingBitrate for n producer ids; with
\* n = 1 the quotient is Infinity, which is not below the minimum
newMaxIncomingBitrate(cfg, n) ==
  LET d == (n - 1) * cfg.num
      infinite == d = 0
      raw == IF infinite THEN 0
             ELSE RoundDiv(cfg.maximumAvailableOutgoingBitrate * cfg.den, d)
      clamped == IF ~infinite /\ raw < cfg.minimumAvailableOutgoingBitrate
                 THEN cfg.minimumAvailableOutgoingBitrate ELSE raw
  IN IF n < 3 THEN cfg.maximumAvailableOutgoingBitrate ELSE clamped

\* MediasoupRoom.updateMaxIncomingBitrate
UpdateMaxIncomingBitrate ==
  /\ bitrate.config # 0
  /\ bitrate.chosen = 0
  /\ bitrate' = [bitrate EXCEPT !.chosen =
                   newMaxIncomingBitrate(Configurations[bitrate.config],
                                         bitrate.producerIds)]
  /\ lastOp' = Op("updateMaxIncomingBitrate", "true", 0, 0, 0)
  /\ UNCHANGED <<sockets, group, workers, roomHeap, loads, routerSeq, openRouters,
                 transports, producers, consumers, notifs, requests, lastEmit, calls>>

\* ------------------------------------------------------------- specification
RtpInputs == {0, GoodCaps}
\* data.rtpCapabilities of a consume request: missing, matching, not matching
ConsumeCaps == {0, GoodCaps, BadCaps}
CapsInputs ==
  {[producerAudioEnabled |-> a, producerVideoEnabled |-> a,
    globalAudioEnabled |-> g, globalVideoEnabled |-> TRUE] : a \in BOOLEAN, g \in BOOLEAN}

Init ==
  /\ sockets = [k \in Sockets |-> 0]
  /\ group = [s \in Sessions |-> {}]
  /\ workers = [w \in Workers |-> [clientsCount |-> 0, roomsCount |-> 0]]
  /\ roomHeap = EmptyMap
  /\ loads = {}
  /\ routerSeq = 0
  /\ openRouters = {}
  /\ transports = EmptyMap
  /\ producers = EmptyMap
  /\ consumers = EmptyMap
  /\ notifs = {}
  /\ requests = {}
  /\ lastOp = NoOp
  /\ lastEmit = {}
  /\ calls = {}
  /\ bitrate = NoBitrate

\* the worker pool and the room registry: one socket per user, connections,
\* admissions, disconnections and reconfigurations over all sessions
PoolSockets == 1..MaxUsers

Next ==
  \/ \E k \in PoolSockets, s \in Sessions : HandleConnection(k, s)
  \/ \E l \in loads : RouterCreated(l)
  \/ \E l \in loads : RouterFailed(l)
  \/ \E l \in loads : ObserverCreated(l)
  \/ \E l \in loads : ObserverFailed(l)
  \/ \E k \in PoolSockets : AddClient(k, "producer")
  \/ \E k \in PoolSockets : HandleDisconnect(k)
  \/ \E s \in Sessions : ReConfigureMedia(s)

Spec == Init /\ [][Next]_vars

\* the selection alone, over every pair of counters
InitPick ==
  /\ sockets = [k \in Sockets |-> 0]
  /\ group = [s \in Sessions |-> {}]
  /\ workers \in [Workers -> [clientsCount : 0..MaxCount, roomsCount : {0}]]
  /\ roomHeap = EmptyMap
  /\ loads = {}
  /\ routerSeq = 0
  /\ openRouters = {}
  /\ transports = EmptyMap
  /\ producers = EmptyMap
  /\ consumers = EmptyMap
  /\ notifs = {}
  /\ requests = {}
  /\ lastOp = NoOp
  /\ lastEmit = {}
  /\ calls = {}
  /\ bitrate = NoBitrate

\* a call of getOptimalWorkerIndex() on the counters as they are
PickWorker ==
  /\ lastOp = NoOp
  /\ lastOp' = Op("getOptimalWorkerIndex", "ok", 0, 0, getOptimalWorkerIndex(workers))
  /\ UNCHANGED <<sockets, group, workers, roomHeap, loads, routerSeq, openRouters,
                 transports, producers, consumers, notifs, requests, lastEmit, calls,
                 bitrate>>

NextPick == PickWorker

SpecPick == InitPick /\ [][NextPick]_vars

\* room creations only: every socket, no admission, no disconnection
NextFresh ==
  \/ \E k \in Sockets, s \in Sessions : HandleConnection(k, s)
  \/ \E l \in loads : RouterCreated(l)
  \/ \E l \in loads : RouterFailed(l)
  \/ \E l \in loads : ObserverCreated(l)
  \/ \E l \in loads : ObserverFailed(l)

SpecFresh == Init /\ [][NextFresh]_vars

\* admission to one session: every socket, both transport kinds, joinRoom
AdmitSession == CHOOSE s \in Sessions : \A x \in Sessions : s <= x

NextAdmit ==
  \/ \E k \in Sockets : HandleConnection(k, AdmitSession)
  \/ \E l \in loads : RouterCreated(l)
  \/ \E l \in loads : ObserverCreated(l)
  \/ \E k \in Sockets, kind \in Kinds : AddClient(k, kind)
  \/ \E k \in Sockets, rtp \in RtpInputs, caps \in CapsInputs : JoinRoom(k, rtp, caps)
  \/ \E k \in Sockets : HandleDisconnect(k)

SpecAdmit == Init /\ [][NextAdmit]_vars

\* media in one session: one socket per user, transports, producers, pushed
\* and pulled consumers, disconnections; the first user sends media and the
\* second one receives it
Sender == CHOOSE k \in PoolSockets : \A x \in PoolSockets : k <= x
Receiver == Sender + 1

JoinCaps ==
  [producerAudioEnabled |-> TRUE, producerVideoEnabled |-> TRUE,
   globalAudioEnabled |-> TRUE, globalVideoEnabled |-> TRUE]

NextMedia ==
  \/ \E k \in PoolSockets : HandleConnection(k, AdmitSession)
  \/ \E l \in loads : RouterCreated(l)
  \/ \E l \in loads : ObserverCreated(l)
  \/ \E k \in PoolSockets : AddClient(k, "producer")
  \/ \E k \in PoolSockets : JoinRoom(k, GoodCaps, JoinCaps)
  \/ \E k \in PoolSockets : HandleDisconnect(k)
  \/ CreateWebRtcTransport(Sender, "PRODUCER")
  \/ CreateWebRtcTransport(Receiver, "CONSUMER")
  \/ \E tag \in Tags : Produce(Sender, tag)
  \/ \E tag \in Tags : Consume(Receiver, UserOf(Sender), tag, GoodCaps)
  \/ \E c \in notifs : DeliverProducerClose(c)
  \/ \E c \in requests : AckNewConsumer(c)

SpecMedia == Init /\ [][NextMedia]_vars

\* push consumption: one room, the sender produces and the receiver, holding
\* a consumer transport, is pushed a consumer that it acknowledges or rejects
NextPush ==
  \/ \E k \in PoolSockets : HandleConnection(k, AdmitSession)
  \/ \E l \in loads : RouterCreated(l)
  \/ \E l \in loads : ObserverCreated(l)
  \/ \E k \in PoolSockets : AddClient(k, "producer")
  \/ \E k \in PoolSockets : JoinRoom(k, GoodCaps, JoinCaps)
  \/ \E k \in PoolSockets : HandleDisconnect(k)
  \/ CreateWebRtcTransport(Sender, "PRODUCER")
  \/ CreateWebRtcTransport(Receiver, "CONSUMER")
  \/ \E tag \in Tags : Produce(Sender, tag)
  \/ \E c \in notifs : DeliverProducerClose(c)
  \/ \E c \in requests : AckNewConsumer(c)
  \/ \E c \in requests : RejectNewConsumer(c)

SpecPush == Init /\ [][NextPush]_vars

\* bitrate governance over every configuration and count of producer ids
InitBitrate ==
  /\ sockets = [k \in Sockets |-> 0]
  /\ group = [s \in Sessions |-> {}]
  /\ workers = [w \in Workers |-> [clientsCount |-> 0, roomsCount |-> 0]]
  /\ roomHeap = EmptyMap
  /\ loads = {}
  /\ routerSeq = 0
  /\ openRouters = {}
  /\ transports = EmptyMap
  /\ producers = EmptyMap
  /\ consumers = EmptyMap
  /\ notifs = {}
  /\ requests = {}
  /\ lastOp = NoOp
  /\ lastEmit = {}
  /\ calls = {}
  /\ bitrate \in {[config |-> c, producerIds |-> n, chosen |-> 0] :
                    c \in DOMAIN Configurations, n \in 0..MaxProducerIds}

NextBitrate == UpdateMaxIncomingBitrate

SpecBitrate == InitBitrate /\ [][NextBitrate]_vars

\* the disconnect cascade: the sender produces video, the receiver is pushed
\* a consumer, may replace its consumer transport, and disconnects
CascadeTransports == MaxTransports + 1

NextCascade ==
  \/ \E k \in PoolSockets : HandleConnection(k, AdmitSession)
  \/ \E l \in loads : RouterCreated(l)
  \/ \E l \in loads : ObserverCreated(l)
  \/ \E k \in PoolSockets : AddClient(k, "producer")
  \/ \E k \in PoolSockets : JoinRoom(k, GoodCaps, JoinCaps)
  \/ HandleDisconnect(Receiver)
  \/ CreateWebRtcTransport(Sender, "PRODUCER")
  \/ CreateWebRtcTransportWithin(Receiver, "CONSUMER", CascadeTransports)
  \/ Produce(Sender, "video")
  \/ \E c \in requests : AckNewConsumer(c)

SpecCascade == Init /\ [][NextCascade]_vars

\* pull consumption: one room, the sender produces, the receiver asks to
\* consume with missing, matching and non-matching capabilities
NextPull ==
  \/ \E k \in PoolSockets : HandleConnection(k, AdmitSession)
  \/ \E l \in loads : RouterCreated(l)
  \/ \E l \in loads : ObserverCreated(l)
  \/ \E k \in PoolSockets : AddClient(k, "producer")
  \/ \E k \in PoolSockets : JoinRoom(k, GoodCaps, JoinCaps)
  \/ HandleDisconnect(Sender)
  \/ CreateWebRtcTransport(Sender, "PRODUCER")
  \/ CreateWebRtcTransport(Receiver, "CONSUMER")
  \/ \E tag \in Tags : Produce(Sender, tag)
  \/ \E tag \in Tags, rtp \in ConsumeCaps : Consume(Receiver, UserOf(Sender), tag, rtp)
  \/ \E c \in notifs : DeliverProducerClose(c)
  \/ \E c \in requests : AckNewConsumer(c)

SpecPull == Init /\ [][NextPull]_vars

\* ------------------------------------------------------------- properties
\* the participants hosted by slot w: the participants of the registered rooms
\* pinned to it
HostedOn(heap, w) ==
  {<<s, u>> \in Sessions \X Users :
     /\ s \in DOMAIN heap
     /\ heap[s].workerIndex = w
     /\ u \in DOMAIN heap[s].clients}

SmallestCount(ws) == SetMin({ws[w].clientsCount : w \in Workers})

TiedSlots(ws) == {w \in Workers : ws[w].clientsCount = SmallestCount(ws)}

SetMax(S) == CHOOSE x \in S : \A y \in S : y <= x

\* C5: initSession on a session whose room is registered returns "already
\* exists" and changes nothing: the registry and every room (router, observer,
\* worker index, participants), the suspended loads, the routers created so
\* far and the worker counters are as before.
C5_InitSessionExistsMutatesNothing ==
  [][\A k \in Sockets, s \in Sessions :
       (sockets[k] = 0 /\ sockets'[k] = s /\ Registered(roomHeap, s))
         => /\ lastOp' = Failed("initSession", "exists")
            /\ UNCHANGED <<roomHeap, loads, routerSeq, openRouters, workers, group,
                           transports, producers, consumers>>]_vars

C5_Witness ==
  /\ lastOp = Failed("initSession", "exists")
  /\ \E s \in Sessions : Registered(roomHeap, s) /\ DOMAIN roomHeap[s].clients # {}
  /\ workers # updateWorkerStats(roomHeap)

\* C6 as stated: when the router or the observer could not be created, the
\* finished initSession has registered no room for the session.
C6_FailedInitLeavesNoRoom ==
  (lastOp.op = "initSession.done" /\ lastOp.res # "ok")
    => ~Registered(roomHeap, lastOp.s)

\* C7: whenever a room is placed (initSession creating it, reConfigureMedia
\* rebinding it), the room is pinned to the chosen slot, and no slot hosts
\* fewer participants than the chosen one, counting the participants of the
\* registered rooms at the moment of the call.
C7_PlacementPicksMinimalTotal ==
  [][((lastOp'.op = "initSession" /\ lastOp'.res = "created")
        \/ (lastOp'.op = "reConfigureMedia" /\ lastOp'.res = "started"))
       => /\ \A w \in Workers :
               Cardinality(HostedOn(roomHeap, lastOp'.idx)) <= Cardinality(HostedOn(roomHeap, w))
          /\ \E rid \in DOMAIN roomHeap' :
               /\ roomHeap'[rid].sessionId = lastOp'.s
               /\ roomHeap'[rid].workerIndex = lastOp'.idx
               /\ (lastOp'.op = "initSession") = (rid \in PendingIds)]_vars

\* a placement made while the slots host different numbers of participants
C7_Witness ==
  /\ lastOp.op \in {"initSession", "reConfigureMedia"}
  /\ lastOp.res \in {"created", "started"}
  /\ lastOp.idx = 0
  /\ HostedOn(roomHeap, 1) # {}

C2_DuplicateAddClientChangesNothing ==
  [][lastOp'.op = "addClient"
       => IF lastOp'.res = "true"
          THEN /\ lastOp'.u \notin DOMAIN roomHeap[lastOp'.s].clients
               /\ lastOp'.u \in DOMAIN roomHeap'[lastOp'.s].clients
          ELSE UNCHANGED <<roomHeap, group, loads, workers, routerSeq, openRouters,
                           transports, producers, consumers, notifs, requests, sockets>>]_vars

\* a failed addClient from another socket and with another kind than the ones
\* of the participant already present under the user id
C2_Witness ==
  /\ lastOp = Failed("addClient", "undefined")
  /\ \E k \in Sockets :
       /\ sockets[k] = AdmitSession
       /\ UserOf(k) \in DOMAIN roomHeap[AdmitSession].clients
       /\ roomHeap[AdmitSession].clients[UserOf(k)].io # k

\* C3: a joinRoom for a participant whose joined flag is already true fails
\* (the thrown Error) and leaves its rtp capabilities, its four enable flags,
\* its joined flag and the broadcast group unchanged and emits nothing; and a
\* joinRoom that succeeds found the joined flag false.
C3_SecondJoinRoomChangesNothing ==
  [][lastOp'.op = "joinRoom"
       => IF lastOp'.res = "ok"
          THEN /\ ~roomHeap[lastOp'.s].clients[lastOp'.u].joined
               /\ roomHeap'[lastOp'.s].clients[lastOp'.u].joined
          ELSE /\ lastEmit' = {}
               /\ UNCHANGED <<roomHeap, group, loads, workers, routerSeq, openRouters,
                              transports, producers, consumers, notifs, requests,
                              sockets>>]_vars

\* a joinRoom refused for a joined participant
C3_Witness ==
  /\ lastOp = Failed("joinRoom", "Error")
  /\ \E u \in DOMAIN roomHeap[AdmitSession].clients :
       /\ roomHeap[AdmitSession].clients[u].joined
       /\ roomHeap[AdmitSession].clients[u].io \in group[AdmitSession]

\* C4 as stated: a joinRoom in a registered room that holds no participant
\* (so for a user id never admitted) fails with an error result of joinRoom
\* itself, and changes nothing.
C4_JoinRoomBeforeAddClientIsAnErrorResult ==
  [][(/\ Registered(roomHeap, AdmitSession)
      /\ DOMAIN roomHeap[AdmitSession].clients = {}
      /\ lastOp'.op = "joinRoom")
       => /\ lastOp'.res = "Error"
          /\ UNCHANGED <<roomHeap, group>>]_vars

\* object id of the map f is closed (a closed object that nothing refers to
\* is no longer kept)
Gone(f, id) == id \notin DOMAIN f \/ f[id].closed

\* C1 as stated: when removeClient has taken a participant out of a room that
\* stays open, the participant is absent from the room's mapping and its
\* audio, video and screen producers and both its transports are closed; and
\* no consumer map of a participant holds a consumer of a closed producer
\* (but for a consumer whose 'producerclose' notification is still on its way).
C1_RemovedClientLeavesNoReference ==
  [][/\ (lastOp'.op = "removeClient" /\ lastOp'.res = "ok")
          => LET s == lastOp'.s
                 u == lastOp'.u
                 m == roomHeap[s].clients[u].media
             IN /\ u \notin DOMAIN roomHeap'[s].clients
                /\ \A p \in {m.producerAudio, m.producerVideo, m.producerScreen} \ {0} :
                     Gone(producers', p)
                /\ \A t \in {m.producerTransport, m.consumerTransport} \ {0} :
                     Gone(transports', t)
     /\ \A s \in Sessions \cap DOMAIN roomHeap' :
          \A u \in DOMAIN roomHeap'[s].clients :
            \A c \in MapRange(roomHeap'[s].clients[u].media.consumersAudio)
                       \cup MapRange(roomHeap'[s].clients[u].media.consumersVideo)
                       \cup MapRange(roomHeap'[s].clients[u].media.consumersScreen) :
              producers'[consumers'[c].producer].closed => c \in notifs']_vars

\* C10 as stated: when a participant that has capabilities and an open
\* consumer transport completes joinRoom while another participant has a live
\* producer, joinRoom creates a consumer of that producer on the joiner and
\* pushes a newConsumer request for it.
C10_JoinRoomPushesConsumers ==
  [][(lastOp'.op = "joinRoom" /\ lastOp'.res = "ok")
       => LET s == lastOp'.s
              u == lastOp'.u
              m == roomHeap[s].clients[u].media
          IN (m.consumerTransport # 0 /\ ~transports[m.consumerTransport].closed)
               => \A p \in DOMAIN producers :
                    (/\ ~producers[p].closed
                     /\ producers[p].room = s
                     /\ producers[p].owner # u
                     /\ producers[p].owner \in DOMAIN roomHeap[s].clients)
                      => \E c \in (DOMAIN consumers') \ DOMAIN consumers :
                           /\ consumers'[c].owner = u
                           /\ consumers'[c].producer = p
                           /\ c \in requests'
                           /\ Emit("newConsumer", roomHeap[s].clients[u].io,
                                   producers[p].owner) \in lastEmit']_vars

\* C11: after a successful produce the new producer is paused when its tag is
\* audio or video; it is not paused and its owner's isScreenSharing is true
\* when the tag is screen-media; an audio or video produce leaves
\* isScreenSharing as it was.
C11_ProducePausePolicy ==
  [][(lastOp'.op = "produce" /\ lastOp'.res = "ok")
       => LET s == lastOp'.s
              u == lastOp'.u
          IN \E p \in (DOMAIN producers') \ DOMAIN producers :
               /\ producers'[p].owner = u
               /\ ~producers'[p].closed
               /\ ProducerOf(roomHeap'[s].clients[u].media, producers'[p].tag) = p
               /\ IF producers'[p].tag = "screen-media"
                  THEN /\ ~producers'[p].paused
                       /\ roomHeap'[s].clients[u].isScreenSharing
                  ELSE /\ producers'[p].paused
                       /\ roomHeap'[s].clients[u].isScreenSharing
                            = roomHeap[s].clients[u].isScreenSharing]_vars

\* a screen-media producer just produced beside a paused audio or video one
C11_Witness ==
  /\ lastOp.op = "produce" /\ lastOp.res = "ok"
  /\ \E p, q \in DOMAIN producers :
       /\ producers[p].tag = "screen-media" /\ ~producers[p].paused
       /\ producers[q].tag # "screen-media" /\ producers[q].paused
       /\ roomHeap[lastOp.s].clients[lastOp.u].isScreenSharing

\* ----------------------------------------------------------- producer control
MediaKinds == {"audio", "video"}

\* a variant of getGlobalProducerCapabilitiesByKind that reports every kind enabled
globalCapabilitiesAlways(c, kind) == TRUE

\* RoomClient.getGlobalProducerCapabilitiesByKind
getGlobalProducerCapabilitiesByKind(c, kind) ==
  IF kind = "audio" THEN c.globalProduceAudioEnabled ELSE c.globalProduceVideoEnabled

\* targetClient.media.producerVideo / producerAudio
ProducerByKind(m, kind) == IF kind = "video" THEN m.producerVideo ELSE m.producerAudio

\* producerVideoEnabled / producerAudioEnabled = v
WithEnabled(c, kind, v) ==
  IF kind = "video" THEN [c EXCEPT !.producerVideoEnabled = v]
  ELSE [c EXCEPT !.producerAudioEnabled = v]

EnabledOf(c, kind) ==
  IF kind = "video" THEN c.producerVideoEnabled ELSE c.producerAudioEnabled

\* targetClient.io.to(sessionId).emit(ev, {mediaTag, isGlobal, userId})
emitProducer(W, s, from, ev, about, tag, isGlobal) ==
  [W EXCEPT !.E = @ \cup {EmitProducer(ev, k, about, tag, isGlobal) : k \in W.G[s] \ {from}}]

\* MediasoupRoom.producerPause
ProducerPause(k, target, kind, isGlobal) ==
  /\ sockets[k] # 0
  /\ UNCHANGED <<sockets, workers, routerSeq>>
  /\ LET s == sockets[k]
     IN IF ~Registered(roomHeap, s)
        THEN Commit(World, loads, Failed("producerPause", "undefined"))
        ELSE IF target \notin DOMAIN roomHeap[s].clients
        THEN Commit(World, loads, Failed("producerPause", "data"))
        ELSE
          LET c == roomHeap[s].clients[target]
              p == ProducerByKind(c.media, kind)
          IN IF ~isGlobal /\ ~getGlobalProducerCapabilitiesByKind(c, kind)
             THEN Commit(World, loads, Failed("producerPause", "data"))
             ELSE IF p = 0 \/ producers[p].paused
             THEN Commit(World, loads, Failed("producerPause", "data"))
             ELSE IF producers[p].closed
             THEN Commit(World, loads, Failed("producerPause", "undefined"))
             ELSE
               LET W1 == [World EXCEPT !.P[p].paused = TRUE,
                                       !.heap[s].clients[target] = WithEnabled(@, kind, FALSE)]
                   W2 == emitProducer(W1, s, c.io, "mediaProducerPause", target,
                                      producers[p].tag, isGlobal)
               IN Commit(W2, loads, Op("producerPause", "data", s, target, 0))

\* MediasoupRoom.producerResume
ProducerResume(k, target, kind, isGlobal) ==
  /\ sockets[k] # 0
  /\ UNCHANGED <<sockets, workers, routerSeq>>
  /\ LET s == sockets[k]
     IN IF ~Registered(roomHeap, s)
        THEN Commit(World, loads, Failed("producerResume", "undefined"))
        ELSE IF target \notin DOMAIN roomHeap[s].clients
        THEN Commit(World, loads, Failed("producerResume", "true"))
        ELSE
          LET c == roomHeap[s].clients[target]
              p == ProducerByKind(c.media, kind)
          IN IF ~isGlobal /\ ~getGlobalProducerCapabilitiesByKind(c, kind)
             THEN Commit(World, loads, Failed("producerResume", "false"))
             ELSE IF p # 0 /\ producers[p].paused /\ ~producers[p].closed
             THEN LET W1 == [World EXCEPT !.P[p].paused = FALSE,
                                          !.heap[s].clients[target] =
                                             WithEnabled(@, kind, FALSE)]
                      W2 == emitProducer(W1, s, c.io, "mediaProducerResume", target,
                                         producers[p].tag, isGlobal)
                  IN Commit(W2, loads, Op("producerResume", "true", s, target, 0))
             ELSE IF p # 0 /\ producers[p].closed
             THEN Commit([World EXCEPT !.E = {Emit("mediaReproduce", c.io, 0)}],
                         loads, Op("producerResume", "true", s, target, 0))
             ELSE Commit(World, loads, Failed("producerResume", "true"))

\* producer control: one room, the sender produces audio and video, every
\* participant pauses and resumes the sender's producers
\* ------------------------------------------------ commands suspended at an await
\* createWebRtcTransport up to `await this.router.createWebRtcTransport(...)`:
\* the handler has read clients.get(userId) and this.router
RequestWebRtcTransport(k, type) ==
  /\ sockets[k] # 0
  /\ Cardinality(calls) < MaxCalls
  /\ UNCHANGED <<sockets, workers, routerSeq>>
  /\ LET s == sockets[k]
         u == UserOf(k)
     IN IF ~Registered(roomHeap, s)
        THEN Commit(World, loads, Failed("createWebRtcTransport", "undefined"))
        ELSE IF ~RouterOpen(World, s)
        THEN Commit(World, loads, Failed("createWebRtcTransport", "error"))
        ELSE Commit([World EXCEPT !.K = @ \cup
                       {[room |-> s, user |-> u, type |-> type,
                         router |-> roomHeap[s].router,
                         client |-> IF u \in DOMAIN roomHeap[s].clients
                                    THEN "live" ELSE "undefined"]}],
                    loads, Op("createWebRtcTransport", "suspended", s, u, 0))

\* createWebRtcTransport from the worker's answer on: the transport is stored in
\* the RoomClient object the handler read before the await
WebRtcTransportCreated(c) ==
  /\ c \in calls
  /\ DOMAIN transports # 1..MaxTransports
  /\ UNCHANGED <<sockets, workers, routerSeq>>
  /\ LET t == NewId(transports, MaxTransports)
         W0 == [World EXCEPT !.K = @ \ {c}]
         W1 == [W0 EXCEPT !.T = WithNew(@, t, [room |-> c.room, owner |-> c.user,
                                               type |-> c.type, router |-> c.router,
                                               closed |-> FALSE,
                                               maxIncomingBitrate |-> 0])]
     IN IF c.router \notin openRouters
        THEN Commit(W0, loads, Op("createWebRtcTransport.done", "error", c.room, c.user, 0))
        ELSE IF c.client = "undefined"
        THEN Commit(W1, loads, Op("createWebRtcTransport.done", "error", c.room, c.user, 0))
        ELSE IF c.client = "dropped"
        THEN Commit(W1, loads, Op("createWebRtcTransport.done", "ok", c.room, c.user, 0))
        ELSE Commit(IF c.type = "PRODUCER"
                    THEN [W1 EXCEPT !.heap[c.room].clients[c.user].media.producerTransport = t]
                    ELSE [W1 EXCEPT !.heap[c.room].clients[c.user].media.consumerTransport = t],
                    loads, Op("createWebRtcTransport.done", "ok", c.room, c.user, 0))

\* one room whose commands are suspended at their worker request while
\* participants leave and the room is reconfigured
NextAsync ==
  \/ \E k \in PoolSockets : HandleConnection(k, AdmitSession)
  \/ \E l \in loads : RouterCreated(l)
  \/ \E l \in loads : ObserverCreated(l)
  \/ \E k \in PoolSockets : AddClient(k, "producer")
  \/ \E k \in PoolSockets : HandleDisconnect(k)
  \/ ReConfigureMedia(AdmitSession)
  \/ \E k \in PoolSockets, type \in TransportTypes : RequestWebRtcTransport(k, type)
  \/ \E c \in calls : WebRtcTransportCreated(c)

SpecAsync == Init /\ [][NextAsync]_vars

\* speakMsClient with an action outside the switch: the Error thrown after
\* the switch is caught and the command returns false
SpeakUnknownAction(k) ==
  /\ sockets[k] # 0
  /\ UNCHANGED <<sockets, workers, routerSeq>>
  /\ IF ~Registered(roomHeap, sockets[k])
     THEN Commit(World, loads, Failed("speakMsClient", "undefined"))
     ELSE Commit(World, loads, Failed("speakMsClient", "false"))

\* payload.producerCapabilities with the participant's own flags on
ControlCaps == {c \in CapsInputs : c.producerAudioEnabled}

NextControl ==
  \/ \E k \in PoolSockets : HandleConnection(k, AdmitSession)
  \/ \E l \in loads : RouterCreated(l)
  \/ \E l \in loads : ObserverCreated(l)
  \/ \E k \in PoolSockets : AddClient(k, "producer")
  \/ \E k \in PoolSockets, caps \in ControlCaps : JoinRoom(k, GoodCaps, caps)
  \/ HandleDisconnect(Receiver)
  \/ CreateWebRtcTransport(Sender, "PRODUCER")
  \/ \E kind \in MediaKinds : Produce(Sender, kind)
  \/ \E k \in PoolSockets, kind \in MediaKinds, g \in BOOLEAN :
       ProducerPause(k, UserOf(Sender), kind, g)
  \/ \E k \in PoolSockets, kind \in MediaKinds, g \in BOOLEAN :
       ProducerResume(k, UserOf(Sender), kind, g)
  \/ SpeakUnknownAction(Sender)

SpecControl == Init /\ [][NextControl]_vars

\* the cases of C12: the capabilities are missing, the target has no producer
\* for the tag, or the router cannot consume the producer with them
C12_Refused(s, target, tag, rtp) ==
  LET p == ProducerOf(roomHeap[s].clients[target].media, tag)
  IN \/ rtp = 0
     \/ p = 0
     \/ rtp = BadCaps
     \/ (p # 0 /\ producers[p].closed)

\* C12: a pull consume whose rtp capabilities are missing, whose target has no
\* producer for the tag, or that the router cannot consume, fails: it returns
\* no descriptor, creates no consumer and changes no consumer map.
C12_RefusedConsumeCreatesNothing ==
  [][\A tag \in Tags, rtp \in ConsumeCaps :
       LET s == sockets[Receiver]
           target == UserOf(Sender)
       IN (/\ Consume(Receiver, target, tag, rtp)
           /\ Registered(roomHeap, s)
           /\ {UserOf(Receiver), target} \subseteq DOMAIN roomHeap[s].clients
           /\ C12_Refused(s, target, tag, rtp))
          => /\ lastOp'.op = "consume" /\ lastOp'.res = "undefined"
             /\ consumers' = consumers
             /\ roomHeap' = roomHeap
             /\ requests' = requests]_vars

\* a consume was refused although the receiver has an open consumer transport
\* and the sender a live producer for every tag but one
C12_Witness ==
  /\ lastOp.op = "consume" /\ lastOp.res = "undefined"
  /\ Registered(roomHeap, AdmitSession)
  /\ {UserOf(Receiver), UserOf(Sender)} \subseteq DOMAIN roomHeap[AdmitSession].clients
  /\ LET m == roomHeap[AdmitSession].clients[UserOf(Receiver)].media
     IN m.consumerTransport # 0 /\ ~transports[m.consumerTransport].closed
  /\ Cardinality({p \in DOMAIN producers : ~producers[p].closed}) = MaxProducers

\* C13: a pull consume for a peer and tag for which the participant already
\* holds a live pulled consumer creates no second consumer.
C13_SecondConsumeCreatesNoConsumer ==
  [][lastOp'.op = "consume"
       => \A c2 \in (DOMAIN consumers') \ DOMAIN consumers :
            ~\E c1 \in DOMAIN consumers :
                /\ ~consumers[c1].closed
                /\ consumers[c1].flow = "pull"
                /\ consumers[c1].owner = consumers'[c2].owner
                /\ consumers[c1].peer = consumers'[c2].peer
                /\ consumers[c1].tag = consumers'[c2].tag]_vars

\* C14: a producerPause with isGlobal false on a participant whose global
\* enable flag for that kind is false changes nothing and emits no
\* mediaProducerPause.
C14_PauseUnderGlobalMuteIsNoOp ==
  [][\A k \in PoolSockets, kind \in MediaKinds :
       LET s == sockets[k]
           target == UserOf(Sender)
       IN (/\ ProducerPause(k, target, kind, FALSE)
           /\ Registered(roomHeap, s)
           /\ target \in DOMAIN roomHeap[s].clients
           /\ ~(IF kind = "audio"
                THEN roomHeap[s].clients[target].globalProduceAudioEnabled
                ELSE roomHeap[s].clients[target].globalProduceVideoEnabled))
          => /\ roomHeap' = roomHeap
             /\ producers' = producers
             /\ \A e \in lastEmit' : e.ev # "mediaProducerPause"]_vars

\* a pause returned without effect although the sender's audio and video
\* producers are live and running; the sender's global audio flag is off
C14_Witness ==
  /\ lastOp = Failed("producerPause", "data")
  /\ Registered(roomHeap, AdmitSession)
  /\ UserOf(Sender) \in DOMAIN roomHeap[AdmitSession].clients
  /\ LET c == roomHeap[AdmitSession].clients[UserOf(Sender)]
     IN /\ ~c.globalProduceAudioEnabled
        /\ c.globalProduceVideoEnabled
        /\ \A kind \in MediaKinds :
             LET p == ProducerByKind(c.media, kind)
             IN p # 0 /\ ~producers[p].closed /\ ~producers[p].paused

\* C15: a producerResume with isGlobal false that follows a producerPause with
\* isGlobal false of the same producer leaves the producer live and running
\* and the participant's enable flag of that kind true.
C15_PauseThenResumeLeavesEnabled ==
  [][\A k \in PoolSockets, kind \in MediaKinds :
       LET s == sockets[k]
           target == UserOf(Sender)
       IN (/\ ProducerResume(k, target, kind, FALSE)
           /\ lastOp = Op("producerPause", "data", s, target, 0)
           /\ \E e \in lastEmit : /\ e.ev = "mediaProducerPause"
                                  /\ ~e.isGlobal
                                  /\ e.about = target
                                  /\ e.mediaTag = kind)
          => /\ target \in DOMAIN roomHeap'[s].clients
             /\ LET c == roomHeap'[s].clients[target]
                    p == ProducerByKind(c.media, kind)
                IN /\ p # 0
                   /\ ~producers'[p].closed
                   /\ ~producers'[p].paused
                   /\ EnabledOf(c, kind)]_vars

\* the commands the room dispatches for a registered session
C16_Commands ==
  {"createWebRtcTransport", "produce", "consume", "producerPause",
   "producerResume", "speakMsClient"}

\* C16: a command that fails returns an error envelope and a command that
\* succeeds returns a result object: no command of a registered room ends
\* with the value undefined, and none but a producerResume refused under a
\* global mute ends with the value false.
C16_CommandsReturnResultOrEnvelope ==
  [][(lastOp'.op \in C16_Commands /\ Registered(roomHeap, AdmitSession))
       => \/ lastOp'.res \in {"ok", "error", "data", "true"}
          \/ (lastOp'.op = "producerResume" /\ lastOp'.res = "false")]_vars

\* C17: when reConfigureMedia completes and mediaReconfigure is broadcast, the
\* room is bound to a new open router, has an open audio level observer
\* created on that router, and none of its participants holds a transport,
\* producer or consumer.
C17_ReconfigureEndsWithNewRouter ==
  [][(lastOp'.op = "reConfigureMedia.done"
        \/ \E e \in lastEmit' : e.ev = "mediaReconfigure")
       => LET s == lastOp'.s
              room == roomHeap'[s]
          IN /\ room.router \in openRouters'
             /\ room.router # roomHeap[s].router \/ room.router \notin openRouters
             /\ room.observerRouter = room.router
             /\ ~room.observerClosed
             /\ \A u \in DOMAIN room.clients : room.clients[u].media = EmptyMedia]_vars

\* C18: while a reConfigureMedia of the room is between closing the old router
\* and broadcasting mediaReconfigure, a createWebRtcTransport that arrives
\* fails, and none that completes attaches a transport.
C18_CommandsFailWhileReconfiguring ==
  [][(\E l \in loads : l.kind = "reconf" /\ l.room = AdmitSession)
       => /\ lastOp'.op = "createWebRtcTransport" => lastOp'.res = "error"
          /\ lastOp'.op = "createWebRtcTransport.done"
               => /\ roomHeap' = roomHeap
                  /\ DOMAIN transports' \subseteq DOMAIN transports]_vars

\* the commands of C19 that this specification runs
C19_Mutating == {"removeClient", "reConfigureMedia", "createWebRtcTransport"}

\* C19: while a command of a room is suspended at a worker request, no other
\* mutating command changes the room's participants, their fields or the
\* room's router.
C19_NoInterleavingInRoom ==
  [][\A c \in calls :
       (lastOp'.op \in C19_Mutating /\ Registered(roomHeap, c.room))
         => /\ Registered(roomHeap', c.room)
            /\ roomHeap'[c.room] = roomHeap[c.room]]_vars

\* C20: when a createWebRtcTransport resumes after its participant was removed,
\* its result is discarded: the step leaves no new open transport.
C20_ResumedWorkOfRemovedIsDiscarded ==
  [][\A c \in calls \ calls' :
       (lastOp'.op = "createWebRtcTransport.done" /\ c.client = "dropped")
         => \A t \in (DOMAIN transports') \ DOMAIN transports : transports'[t].closed]_vars

\* C21: a pushed consumer whose newConsumer request is rejected is closed and
\* removed from the subscriber's map; it is not left open and paused.
C21_RejectedPushConsumerIsClosed ==
  [][(lastOp'.op = "newConsumer" /\ lastOp'.res = "rejected")
       => \A c \in requests \ requests' :
            \/ c \notin DOMAIN consumers'
            \/ consumers'[c].closed]_vars

\* C22: when a participant A that holds an open consumer disconnects, every
\* consumer of A is closed, the producers of the other participants that A
\* consumed stay as they were, every socket left in the broadcast group gets
\* mediaClientDisconnect about A, and neither consumerClosed nor
\* mediaProducerClose is emitted to A.
C22_DisconnectCascade ==
  [][(lastOp'.op = "removeClient" /\ lastOp'.u # 0)
       => LET s == lastOp'.s
              A == lastOp'.u
              io == roomHeap[s].clients[A].io
          IN /\ \A c \in DOMAIN consumers :
                  (consumers[c].room = s /\ consumers[c].owner = A
                     /\ ~consumers[c].stale /\ ~consumers[c].closed)
                    => /\ c \notin DOMAIN consumers' \/ consumers'[c].closed
                       /\ LET q == consumers[c].producer
                          IN (producers[q].owner # A /\ ~producers[q].closed)
                               => /\ q \in DOMAIN producers'
                                  /\ producers'[q] = producers[q]
             /\ \A e \in lastEmit' :
                  e.ev \in {"consumerClosed", "mediaProducerClose"} => e.to # io
             /\ \A k \in group[s] \ {io} :
                  Emit("mediaClientDisconnect", k, A) \in lastEmit']_vars

\* C23: a removeClient that leaves its room without participants closes the
\* room and takes it out of the registry: the session is no longer
\* registered and the router the room held is closed.
C23_EmptyRoomIsClosedAndUnregistered ==
  [][(lastOp'.op = "removeClient" /\ lastOp'.res = "closed")
       => LET s == lastOp'.s
          IN /\ ~Registered(roomHeap', s)
             /\ roomHeap[s].router \notin openRouters']_vars

\* C24: for every count of producer ids and every configuration, the bitrate
\* chosen by updateMaxIncomingBitrate is at least
\* minimumAvailableOutgoingBitrate, and it is
\* maximumAvailableOutgoingBitrate when the count is below 3.
C24_ChosenBitrateWithinLimits ==
  [][lastOp'.op = "updateMaxIncomingBitrate"
       => LET cfg == Configurations[bitrate'.config]
          IN /\ bitrate'.chosen >= cfg.minimumAvailableOutgoingBitrate
             /\ bitrate'.producerIds < 3
                  => bitrate'.chosen = cfg.maximumAvailableOutgoingBitrate]_vars

\* the consumers a participant's three consumer maps hold
HeldConsumers(m) ==
  MapRange(m.consumersAudio) \cup MapRange(m.consumersVideo)
    \cup MapRange(m.consumersScreen)

\* C25: in a quiescent state (no 'producerclose' notification under way) no
\* consumer map of a participant holds a consumer whose producer is closed.
C25_NoHeldConsumerOfClosedProducer ==
  notifs = {} =>
    \A r \in DOMAIN roomHeap : \A u \in DOMAIN roomHeap[r].clients :
      \A c \in HeldConsumers(roomHeap[r].clients[u].media) :
        ~producers[consumers[c].producer].closed

\* C26: in every state, suspension points of initSession and reConfigureMedia
\* included, the router and the audio level observer of a registered room are
\* both open or both closed, and the observer was created on the room's
\* current router.
C26_RouterAndObserverAgree ==
  \A s \in Sessions :
    Registered(roomHeap, s) =>
      /\ RouterOpen(World, s) <=> ObserverOpen(World, s)
      /\ roomHeap[s].observerRouter = roomHeap[s].router

\* ------------------------------------------------------------- producerClose
\* client.consumersX.get(userId)?.close() for every other participant, in
\* order; a participant whose media was reset has no map and the call throws
RECURSIVE CloseHeldConsumers(_, _, _, _, _, _)
CloseHeldConsumers(W, s, S, target, kind, isScreenMedia) ==
  IF S = {} THEN [w |-> W, threw |-> FALSE]
  ELSE
    LET peer == SetMin(S)
        m == W.heap[s].clients[peer].media
        map == IF kind = "video" /\ isScreenMedia THEN ConsumersScreenOf(m)
               ELSE IF kind = "video" THEN ConsumersVideoOf(m)
               ELSE ConsumersAudioOf(m)
    IN IF map = None THEN [w |-> W, threw |-> TRUE]
       ELSE IF target \notin DOMAIN map[1]
       THEN CloseHeldConsumers(W, s, S \ {peer}, target, kind, isScreenMedia)
       ELSE CloseHeldConsumers([W EXCEPT !.C[map[1][target]].closed = TRUE],
                               s, S \ {peer}, target, kind, isScreenMedia)

\* MediasoupRoom.producerClose
ProducerCloseCommand(k, target, kind, isScreenMedia) ==
  /\ sockets[k] # 0
  /\ UNCHANGED <<sockets, workers, routerSeq>>
  /\ LET s == sockets[k]
     IN IF ~Registered(roomHeap, s)
        THEN Commit(World, loads, Failed("producerClose", "undefined"))
        ELSE IF target \notin DOMAIN roomHeap[s].clients
        THEN Commit(World, loads, Failed("producerClose", "true"))
        ELSE
          LET c == roomHeap[s].clients[target]
              p == IF kind = "video" /\ isScreenMedia THEN c.media.producerScreen
                   ELSE ProducerByKind(c.media, kind)
              R1 == CloseHeldConsumers(World, s, getJoinedPeers(World, s, target),
                                       target, kind, isScreenMedia)
              W1 == R1.w
          IN IF R1.threw
             THEN Commit(W1, loads, Op("producerClose", "undefined", s, target, 0))
             ELSE IF p = 0 \/ producers[p].closed
             THEN Commit(W1, loads, Op("producerClose", "true", s, target, 0))
             ELSE
               LET W2 == IF isScreenMedia
                         THEN [W1 EXCEPT !.heap[s].clients[target].isScreenSharing = FALSE]
                         ELSE W1
                   W3 == ProducerClose(W2, p)
                   W4 == emitProducer(W3, s, c.io, "mediaProducerClose", target,
                                      producers[p].tag, FALSE)
               IN Commit(W4, loads, Op("producerClose", "true", s, target, p))

\* screen sharing: produce, producerClose and reConfigureMedia in one room
NextScreen ==
  \/ \E k \in PoolSockets : HandleConnection(k, AdmitSession)
  \/ \E l \in loads : RouterCreated(l)
  \/ \E l \in loads : ObserverCreated(l)
  \/ \E k \in PoolSockets : AddClient(k, "producer")
  \/ CreateWebRtcTransport(Sender, "PRODUCER")
  \/ \E tag \in Tags : Produce(Sender, tag)
  \/ \E kind \in MediaKinds, isScreenMedia \in BOOLEAN :
       ProducerCloseCommand(Sender, UserOf(Sender), kind, isScreenMedia)
  \/ ReConfigureMedia(AdmitSession)

SpecScreen == Init /\ [][NextScreen]_vars

\* C27: a participant has a screen-share producer present (stored and not
\* closed) exactly when its isScreenSharing flag is true.
C27_ScreenFlagMatchesProducer ==
  \A s \in DOMAIN roomHeap : \A u \in DOMAIN roomHeap[s].clients :
    LET c == roomHeap[s].clients[u]
    IN c.isScreenSharing
         <=> (c.media.producerScreen # 0 /\ ~producers[c.media.producerScreen].closed)

\* C28: a participant with joined = true has its rtpCapabilities set and its
\* socket in the broadcast group of the room; a participant with
\* joined = false has its socket outside the group.
C28_JoinedMatchesGroup ==
  \A s \in DOMAIN roomHeap : \A u \in DOMAIN roomHeap[s].clients :
    LET c == roomHeap[s].clients[u]
    IN /\ c.joined => (c.rtpCapabilities # 0 /\ c.io \in group[s])
       /\ ~c.joined => c.io \notin group[s]

\* C29: a pushed consumer is created paused, and it is resumed only by the
\* step in which its owner's answer to the newConsumer request arrives; it is
\* never resumed before that answer.
C29_PushedConsumerResumedOnlyOnAck ==
  [][\A c \in DOMAIN consumers' :
       consumers'[c].flow = "push" =>
         /\ c \notin DOMAIN consumers => consumers'[c].paused
         /\ (c \in DOMAIN consumers /\ consumers[c].flow = "push"
               /\ consumers[c].paused /\ ~consumers'[c].paused)
              => /\ c \in requests /\ c \notin requests'
                 /\ lastOp'.op = "newConsumer" /\ lastOp'.res = "resumed"]_vars

\* a pushed consumer has just been resumed by the answer to its request
C29_Witness ==
  /\ lastOp.op = "newConsumer" /\ lastOp.res = "resumed"
  /\ \E c \in DOMAIN consumers :
       /\ consumers[c].flow = "push" /\ ~consumers[c].paused
       /\ consumers[c].owner = lastOp.u /\ c \notin requests

\* C30: after a successful pull consume for a tag that targets a user, the new
\* consumer is stored under the target's key in the requester's consumer map
\* of exactly that tag, and in neither of the other two maps.
C30_PulledConsumerStoredUnderItsTag ==
  [][(lastOp'.op = "consume" /\ lastOp'.res = "ok")
       => \A c \in (DOMAIN consumers') \ DOMAIN consumers :
            consumers'[c].flow = "pull" =>
              LET con == consumers'[c]
                  m == roomHeap'[con.room].clients[con.owner].media
              IN /\ TagMap(m, con.tag) # None
                 /\ con.peer \in DOMAIN TagMap(m, con.tag)[1]
                 /\ TagMap(m, con.tag)[1][con.peer] = c
                 /\ \A t \in Tags \ {con.tag} : c \notin MapRange(TagMap(m, t))]_vars

\* ------------------------------------------------------------- dtlsstatechange
DtlsStates == {"closed", "failed"}

\* the 'dtlsstatechange' handler wired by createWebRtcTransport: 'closed'
\* closes the transport, 'failed' only logs
DtlsStateChange(t, dtlsState) ==
  /\ t \in DOMAIN transports
  /\ ~transports[t].closed
  /\ UNCHANGED <<sockets, workers, routerSeq>>
  /\ LET W1 == IF dtlsState = "closed" THEN TransportClose(World, t, TRUE) ELSE World
     IN Commit(W1, loads,
               Op("dtlsstatechange", dtlsState, transports[t].room, transports[t].owner, t))

\* transports whose DTLS state changes, with a producer and a pushed consumer
NextDtls ==
  \/ \E k \in PoolSockets : HandleConnection(k, AdmitSession)
  \/ \E l \in loads : RouterCreated(l)
  \/ \E l \in loads : ObserverCreated(l)
  \/ \E k \in PoolSockets : AddClient(k, "producer")
  \/ \E k \in PoolSockets : JoinRoom(k, GoodCaps, JoinCaps)
  \/ CreateWebRtcTransport(Sender, "PRODUCER")
  \/ CreateWebRtcTransport(Receiver, "CONSUMER")
  \/ Produce(Sender, "video")
  \/ \E t \in DOMAIN transports, d \in DtlsStates : DtlsStateChange(t, d)
  \/ \E c \in notifs : DeliverProducerClose(c)
  \/ \E c \in requests : AckNewConsumer(c)

SpecDtls == Init /\ [][NextDtls]_vars

\* C31: whenever the DTLS state of a transport changes to closed or to failed,
\* that transport is closed by the step that handles the change.
C31_DtlsClosedOrFailedClosesTransport ==
  [][lastOp'.op = "dtlsstatechange"
       => \/ lastOp'.idx \notin DOMAIN transports'
          \/ transports'[lastOp'.idx].closed]_vars

\* MediasoupRoom.producerIds: the participants with a video or audio producer
producerIds(heap, s) ==
  {u \in DOMAIN heap[s].clients :
     heap[s].clients[u].media.producerVideo # 0 \/ heap[s].clients[u].media.producerAudio # 0}

\* the open transports updateMaxIncomingBitrate would set: the producer and
\* consumer transport of every participant of the room
GovernedTransports(heap, T, s) ==
  {t \in DOMAIN T :
     /\ ~T[t].closed
     /\ \E u \in DOMAIN heap[s].clients :
          t \in {heap[s].clients[u].media.producerTransport,
                 heap[s].clients[u].media.consumerTransport}}

\* C32: after every successful createWebRtcTransport and every successful
\* produce, each open producer and consumer transport of each participant of
\* the room carries the bitrate computed from the current count of producers.
C32_BitrateAppliedAfterTopologyChange ==
  [][(lastOp'.op \in {"createWebRtcTransport", "produce"} /\ lastOp'.res = "ok")
       => \A t \in GovernedTransports(roomHeap', transports', lastOp'.s) :
            \E c \in DOMAIN Configurations :
              transports'[t].maxIncomingBitrate =
                newMaxIncomingBitrate(Configurations[c],
                                      Cardinality(producerIds(roomHeap', lastOp'.s)))]_vars

\* ------------------------------------------------------------- concurrent connects
\* two initSession calls of one session may be suspended at room.load() at once
RacePending == MaxPending + 1

NextRace ==
  \/ \E k \in Sockets : HandleConnectionWithin(k, AdmitSession, RacePending)
  \/ \E l \in loads : RouterCreated(l)
  \/ \E l \in loads : ObserverCreated(l)
  \/ \E k \in Sockets, kind \in Kinds : AddClient(k, kind)

SpecRace == Init /\ [][NextRace]_vars

\* C33: once the connections of a session have been handled (no initSession is
\* suspended), every open router is the router of a registered room, so one
\* router exists for the session.
C33_OneRouterPerSession ==
  loads = {} =>
    \A r \in openRouters :
      \E s \in Sessions : Registered(roomHeap, s) /\ roomHeap[s].router = r

\* C34: when a socket whose addClient was just rejected as a duplicate of an
\* admitted participant disconnects, the participant (admitted through
\* another socket) stays in the room and no disconnect of it is announced.
C34_DuplicateSocketDisconnectKeepsOriginal ==
  [][\A k \in Sockets :
       LET s == sockets[k]
           u == UserOf(k)
       IN (/\ lastOp.op = "addClient" /\ lastOp.res = "undefined"
           /\ s # 0 /\ sockets'[k] = 0
           /\ Registered(roomHeap, s)
           /\ u \in DOMAIN roomHeap[s].clients
           /\ roomHeap[s].clients[u].io # k)
          => /\ Registered(roomHeap', s)
             /\ u \in DOMAIN roomHeap'[s].clients
             /\ roomHeap'[s].clients[u] = roomHeap[s].clients[u]
             /\ \A e \in lastEmit' : ~(e.ev = "mediaClientDisconnect" /\ e.about = u)]_vars

\* C35: an addClient of a connected socket, issued while no initSession is
\* suspended, finds the room of its session registered.
C35_AddClientFindsRegisteredRoom ==
  [][(lastOp'.op = "addClient" /\ loads = {}) => lastOp'.res # "TypeError"]_vars

\* producerClose on the slots of a sender whose producers are pushed to a receiver
NextSlot ==
  \/ \E k \in PoolSockets : HandleConnection(k, AdmitSession)
  \/ \E l \in loads : RouterCreated(l)
  \/ \E l \in loads : ObserverCreated(l)
  \/ \E k \in PoolSockets : AddClient(k, "producer")
  \/ \E k \in PoolSockets : JoinRoom(k, GoodCaps, JoinCaps)
  \/ CreateWebRtcTransport(Sender, "PRODUCER")
  \/ CreateWebRtcTransport(Receiver, "CONSUMER")
  \/ \E kind \in MediaKinds : Produce(Sender, kind)
  \/ \E kind \in MediaKinds : ProducerCloseCommand(Sender, UserOf(Sender), kind, FALSE)
  \/ \E c \in notifs : DeliverProducerClose(c)
  \/ \E c \in requests : AckNewConsumer(c)

SpecSlot == Init /\ [][NextSlot]_vars

\* C36: a producerClose that closes one producer of a participant closes no
\* open consumer of another producer, and leaves every other producer open.
C36_ProducerCloseTouchesOneSlot ==
  [][(lastOp'.op = "producerClose" /\ lastOp'.idx # 0)
       => /\ \A c \in DOMAIN consumers :
               (~consumers[c].closed /\ consumers[c].producer # lastOp'.idx)
                 => (c \in DOMAIN consumers' /\ ~consumers'[c].closed)
          /\ \A q \in (DOMAIN producers) \ {lastOp'.idx} :
               ~producers[q].closed => (q \in DOMAIN producers' /\ ~producers'[q].closed)]_vars

\* produce after reConfigureMedia, with transports created anew
NextRenew ==
  \/ \E k \in PoolSockets : HandleConnection(k, AdmitSession)
  \/ \E l \in loads : RouterCreated(l)
  \/ \E l \in loads : ObserverCreated(l)
  \/ \E k \in PoolSockets : AddClient(k, "producer")
  \/ \E k \in PoolSockets : JoinRoom(k, GoodCaps, JoinCaps)
  \/ CreateWebRtcTransport(Sender, "PRODUCER")
  \/ CreateWebRtcTransport(Receiver, "CONSUMER")
  \/ Produce(Sender, "video")
  \/ ReConfigureMedia(AdmitSession)
  \/ \E c \in notifs : DeliverProducerClose(c)
  \/ \E c \in requests : AckNewConsumer(c)

SpecRenew == Init /\ [][NextRenew]_vars

\* C37: a successful produce leaves, for every other joined participant with
\* an open consumer transport, a consumer of the new producer stored in that
\* participant's map of the producer's tag, with a newConsumer request sent
\* to it; this holds after reConfigureMedia as well.
C37_ProduceReachesPeersAfterReconfigure ==
  [][(lastOp'.op = "produce" /\ lastOp'.res = "ok")
       => \A p \in (DOMAIN producers') \ DOMAIN producers :
            \A peer \in (DOMAIN roomHeap'[lastOp'.s].clients) \ {lastOp'.u} :
              LET rc == roomHeap'[lastOp'.s].clients[peer]
              IN (/\ rc.joined
                  /\ rc.media.consumerTransport # 0
                  /\ ~transports'[rc.media.consumerTransport].closed)
                 => \E c \in DOMAIN consumers' :
                      /\ consumers'[c].producer = p /\ consumers'[c].owner = peer
                      /\ c \in MapRange(TagMap(rc.media, producers'[p].tag))
                      /\ c \in requests'
                      /\ Emit("newConsumer", rc.io, lastOp'.u) \in lastEmit']_vars

\* C38: right after a producerPause with isGlobal = true has paused a
\* participant's producer (mediaProducerPause with isGlobal was emitted), no
\* producerResume with isGlobal = false resumes that producer and announces it.
C38_GlobalMuteBlocksUserResume ==
  [][\A e \in lastEmit :
       (e.ev = "mediaProducerPause" /\ e.isGlobal)
         => \A f \in lastEmit' :
              ~(/\ f.ev = "mediaProducerResume" /\ ~f.isGlobal
                /\ f.about = e.about /\ f.mediaTag = e.mediaTag)]_vars

\* the open transports created for participant u of room s that u's media
\* does not refer to
UnreferencedTransports(heap, T, s, u) ==
  {t \in DOMAIN T :
     /\ ~T[t].closed /\ T[t].room = s /\ T[t].owner = u
     /\ \/ u \notin DOMAIN heap[s].clients
        \/ t \notin {heap[s].clients[u].media.producerTransport,
                     heap[s].clients[u].media.consumerTransport}}

\* C39: a successful createWebRtcTransport of a participant whose open
\* transports are all referenced leaves no transport of that participant open
\* and unreferenced.
C39_RepeatedTransportLeavesNoOrphan ==
  [][(/\ lastOp'.op = "createWebRtcTransport" /\ lastOp'.res = "ok"
      /\ Registered(roomHeap, lastOp'.s)
      /\ UnreferencedTransports(roomHeap, transports, lastOp'.s, lastOp'.u) = {})
       => UnreferencedTransports(roomHeap', transports', lastOp'.s, lastOp'.u) = {}]_vars

\* C40: when a producerPause or producerResume sent by another participant
\* pauses or resumes the sender's producer, every member of the broadcast
\* group of the session, the producer's owner included, is sent the
\* mediaProducerPause or mediaProducerResume announcement.
C40_PauseResumeAnnouncedToWholeGroup ==
  [][\A k \in PoolSockets, kind \in MediaKinds, g \in BOOLEAN :
       (/\ UserOf(k) # UserOf(Sender)
        /\ sockets[k] # 0 /\ Registered(roomHeap, sockets[k])
        /\ UserOf(k) \in DOMAIN roomHeap[sockets[k]].clients
        /\ \/ ProducerPause(k, UserOf(Sender), kind, g)
           \/ ProducerResume(k, UserOf(Sender), kind, g)
        /\ \E p \in DOMAIN producers :
             p \in DOMAIN producers' /\ producers'[p].paused # producers[p].paused)
         => \A m \in group'[sockets[k]] :
              \E e \in lastEmit' :
                /\ e.to = m /\ e.about = UserOf(Sender) /\ e.isGlobal = g
                /\ e.ev \in {"mediaProducerPause", "mediaProducerResume"}]_vars

====
